---------------------------- MODULE Spec2Model ----------------------------
(***************************************************************************)
(* Model of the GitBlog generator: the section renderers that build        *)
(* README.md from the issues of a repository (blog_generator.py, class     *)
(* BlogGenerator, and the function variant in main.py), the TODO parser,   *)
(* the friends table, the feed, the choice of the issues to archive and    *)
(* the archive files and the run that produces them all.                   *)
(*                                                                         *)
(* Text is modelled as a sequence of Unicode code points, so that prefix   *)
(* tests, line splitting and the ordering of strings are computed the way  *)
(* Python computes them.  An optional value (None or a value v) is the     *)
(* empty tuple or the one-element tuple <<v>>.                             *)
(***************************************************************************)
EXTENDS Integers, Sequences, FiniteSets, TLC

VARIABLES
    impl,    \* which pipeline runs: "blog_generator" (BlogGenerator.run) or "main" (main.regenerate_readme)
    labels,  \* repo.get_labels(): the labels in the tracker's enumeration order
    issues,  \* repo.get_issues(): the issues in the tracker's enumeration order
    doc,     \* README.md: the lines written so far
    pc,      \* the next step of the run
    arg,     \* the input of a direct call of a pure function
    ret,     \* the value that call returned
    feed,    \* feed.xml: None until this run writes it, then its entries
    archive, \* the backup directory: the lines of each archive file, by file name
    log      \* what the run did so far: the calls it made and the failures it met

vars == <<impl, labels, issues, doc, pc, arg, ret, feed, archive, log>>

---------------------------------------------------------------------------
(* Optional values *)

None == <<>>

Some(v) == <<v>>

IsNone(o) == o = <<>>

Val(o) == o[1]

\* min(a, b)
Min(a, b) == IF a < b THEN a ELSE b

---------------------------------------------------------------------------
(* Text: sequences of code points *)

\* the characters str.splitlines() breaks a line at
LineBreaks == {10, 11, 12, 13, 28, 29, 30, 133, 8232, 8233}

\* the characters str.strip() removes (the ones that occur in the model's texts)
Whitespace == {9, 10, 11, 12, 13, 28, 29, 30, 31, 32, 133, 160, 8232, 8233}

\* s.startswith(p)
StartsWith(s, p) == Len(s) >= Len(p) /\ SubSeq(s, 1, Len(p)) = p

\* sep.join(parts)
RECURSIVE Join(_, _)
Join(parts, sep) ==
    IF parts = <<>> THEN <<>>
    ELSE IF Len(parts) = 1 THEN parts[1]
    ELSE parts[1] \o sep \o Join(Tail(parts), sep)

\* s.splitlines(): a line ends at every line break ("\r\n" is one break);
\* the text after the last break is a line only when it is not empty
RECURSIVE SplitLinesFrom(_, _, _)
SplitLinesFrom(s, i, cur) ==
    IF i > Len(s) THEN (IF cur = <<>> THEN <<>> ELSE <<cur>>)
    ELSE IF s[i] \in LineBreaks
         THEN LET j == IF s[i] = 13 /\ i < Len(s) /\ s[i + 1] = 10 THEN i + 2 ELSE i + 1
              IN  <<cur>> \o SplitLinesFrom(s, j, <<>>)
         ELSE SplitLinesFrom(s, i + 1, Append(cur, s[i]))

splitlines(s) == SplitLinesFrom(s, 1, <<>>)

\* s.split(c): the pieces between the occurrences of c, the last one included
\* even when it is empty
split(s, c) ==
    LET at == {i \in 1..Len(s) : s[i] = c}
        n == Cardinality(at)
        pos(k) == IF k = 0 THEN 0
                  ELSE IF k = n + 1 THEN Len(s) + 1
                  ELSE CHOOSE i \in at : Cardinality({j \in at : j < i}) = k - 1
    IN  [k \in 1..(n + 1) |-> SubSeq(s, pos(k - 1) + 1, pos(k) - 1)]

\* s.lstrip(): leading whitespace removed
RECURSIVE lstrip(_)
lstrip(s) == IF s # <<>> /\ s[1] \in Whitespace THEN lstrip(Tail(s)) ELSE s

\* s.rstrip(): trailing whitespace removed
RECURSIVE rstrip(_)
rstrip(s) ==
    IF s # <<>> /\ s[Len(s)] \in Whitespace THEN rstrip(SubSeq(s, 1, Len(s) - 1)) ELSE s

\* s.strip()
strip(s) == rstrip(lstrip(s))

\* s.lstrip('#'): '#' is code point 35
RECURSIVE lstripHash(_)
lstripHash(s) == IF s # <<>> /\ s[1] = 35 THEN lstripHash(Tail(s)) ELSE s

\* a < b for two str values: by code point, a proper prefix first
RECURSIVE StrLess(_, _)
StrLess(a, b) ==
    IF b = <<>> THEN FALSE
    ELSE IF a = <<>> THEN TRUE
    ELSE IF a[1] # b[1] THEN a[1] < b[1]
    ELSE StrLess(Tail(a), Tail(b))

---------------------------------------------------------------------------
(* The TODO parser *)

\* "- [ ] "
UNDONE_MARK == <<45, 32, 91, 32, 93, 32>>

\* "- [x] "
DONE_MARK == <<45, 32, 91, 120, 93, 32>>

\* the value of a call that raised
Raised == [raised |-> TRUE, allDone |-> FALSE, undone |-> 0, done |-> 0, list |-> <<>>]

\* parse_TODO with the undone lines put first: a mutant of parse_TODO
parse_TODO_undone_first(issue) ==
    IF IsNone(issue.body) THEN Raised
    ELSE LET body == splitlines(Val(issue.body))
             todo_undone == SelectSeq(body, LAMBDA l : StartsWith(l, UNDONE_MARK))
             todo_done == SelectSeq(body, LAMBDA l : StartsWith(l, DONE_MARK))
         IN  IF todo_undone = <<>>
             THEN [raised |-> FALSE, allDone |-> TRUE, undone |-> 0, done |-> 0, list |-> <<>>]
             ELSE [raised |-> FALSE, allDone |-> FALSE, undone |-> Len(todo_undone),
                   done |-> Len(todo_done), list |-> todo_undone \o todo_done]

\* parse_TODO that lists the done lines of a finished issue: a mutant of parse_TODO
parse_TODO_lists_done(issue) ==
    IF IsNone(issue.body) THEN Raised
    ELSE LET body == splitlines(Val(issue.body))
             todo_undone == SelectSeq(body, LAMBDA l : StartsWith(l, UNDONE_MARK))
             todo_done == SelectSeq(body, LAMBDA l : StartsWith(l, DONE_MARK))
         IN  IF todo_undone = <<>>
             THEN [raised |-> FALSE, allDone |-> TRUE, undone |-> 0, done |-> 0, list |-> todo_done]
             ELSE [raised |-> FALSE, allDone |-> FALSE, undone |-> Len(todo_undone),
                   done |-> Len(todo_done), list |-> todo_done \o todo_undone]

\* parse_TODO(issue): the summary (all done, or the two counts) and the task
\* lines; issue.body.splitlines() raises when the body is None
parse_TODO(issue) ==
    IF IsNone(issue.body) THEN Raised
    ELSE LET body == splitlines(Val(issue.body))
             todo_undone == SelectSeq(body, LAMBDA l : StartsWith(l, UNDONE_MARK))
             todo_done == SelectSeq(body, LAMBDA l : StartsWith(l, DONE_MARK))
         IN  IF todo_undone = <<>>
             THEN [raised |-> FALSE, allDone |-> TRUE, undone |-> 0, done |-> 0, list |-> <<>>]
             ELSE [raised |-> FALSE, allDone |-> FALSE, undone |-> Len(todo_undone),
                   done |-> Len(todo_done), list |-> todo_done \o todo_undone]

---------------------------------------------------------------------------
(* Configuration constants *)

\* "Top", "TODO", "Friends", "About"
S_Top == <<84, 111, 112>>

S_TODO == <<84, 79, 68, 79>>

S_Friends == <<70, 114, 105, 101, 110, 100, 115>>

S_About == <<65, 98, 111, 117, 116>>

\* the two Chinese label names of main.py, "bug" and "enhancement"
S_ZhiDing == <<32622, 39030>>

S_DaiBan == <<24453, 21150>>

S_bug == <<98, 117, 103>>

S_enhancement == <<101, 110, 104, 97, 110, 99, 101, 109, 101, 110, 116>>

\* blog_generator.py
ANCHOR_NUMBER == 5

TOP_ISSUES_LABELS == {S_Top}

TODO_ISSUES_LABELS == {S_TODO}

FRIENDS_LABELS == {S_Friends}

ABOUT_LABELS == {S_About}

IGNORE_LABELS == FRIENDS_LABELS \cup TOP_ISSUES_LABELS \cup TODO_ISSUES_LABELS \cup ABOUT_LABELS

RECENT_ISSUE_LIMIT == 5

MAX_SUMMARY_LINES == 3

MAX_SUMMARY_LENGTH == 50

\* main.py
MAIN_TOP_ISSUES_LABELS == {S_Top, S_ZhiDing}

MAIN_TODO_ISSUES_LABELS == {S_TODO, S_DaiBan}

MAIN_IGNORE_LABELS == MAIN_TOP_ISSUES_LABELS \cup MAIN_TODO_ISSUES_LABELS \cup {S_bug, S_enhancement}

MAIN_RECENT_ISSUE_LIMIT == 20

---------------------------------------------------------------------------
(* The tracker: issues and labels *)

\* the login of the authenticated user, and of somebody else
ME == "me"

SOMEBODY == "other"

\* is_me(issue, me)
is_me(x) == x.user = ME

\* repo.get_issues(labels=ls): the issues that carry every label of ls, in
\* enumeration order
get_issues(ls) == SelectSeq(issues, LAMBDA i : ls \subseteq i.labels)

\* get_issues_from_label(label)
get_issues_from_label(label) == get_issues({label.name})

\* sorted(xs, key=...) and sorted(xs, key=..., reverse=True): a stable sort;
\* Before(a, b) says that a's key comes strictly before b's in the order asked
\* for, and elements whose keys are equal keep their order
StableSort(xs, Before(_, _)) ==
    LET n == Len(xs)
        pos(i) == 1 + Cardinality({j \in 1..n : \/ Before(xs[j], xs[i])
                                               \/ (j < i /\ ~Before(xs[i], xs[j]))})
    IN  [k \in 1..n |-> xs[CHOOSE i \in 1..n : pos(i) = k]]

Reverse(xs) == [k \in 1..Len(xs) |-> xs[Len(xs) + 1 - k]]

\* the sort by update time written as an ascending sort that is then
\* reversed, which reverses the ties too: a mutant of SortByUpdatedDesc
SortByUpdatedAscReversed(xs) ==
    Reverse(StableSort(xs, LAMBDA a, b : a.updated_at < b.updated_at))

\* sorted(xs, key=lambda x: x.updated_at, reverse=True)
SortByUpdatedDesc(xs) == StableSort(xs, LAMBDA a, b : a.updated_at > b.updated_at)

\* the order of two label keys (description is None, description == "",
\* description, name), compared as Python compares tuples: at the first
\* component that differs
LabelKeyLess(a, b) ==
    LET a1 == IsNone(a.description)
        b1 == IsNone(b.description)
        a2 == a.description = Some(<<>>)
        b2 == b.description = Some(<<>>)
    IN  IF a1 # b1 THEN ~a1 /\ b1
        ELSE IF a2 # b2 THEN ~a2 /\ b2
        ELSE IF a.description # b.description
             THEN StrLess(Val(a.description), Val(b.description))
        ELSE StrLess(a.name, b.name)

\* the label sort with the description left out of the key: a mutant of SortLabels
SortLabelsByName(ls) == StableSort(ls, LAMBDA a, b : StrLess(a.name, b.name))

\* sorted(labels, key=lambda x: (x.description is None, x.description == "",
\* x.description, x.name))
SortLabels(ls) == StableSort(ls, LabelKeyLess)

---------------------------------------------------------------------------
(* README.md: a sequence of lines.  sec names the renderer that wrote the  *)
(* line, kind what the line is, issue the number of the issue a line is    *)
(* about (0: none), text the text that varies on the line, rows the rows of  *)
(* the friends table.                                                      *)

Line(sec, kind, issue, text) ==
    [sec |-> sec, kind |-> kind, issue |-> issue, text |-> text, rows |-> <<>>]

\* the cut made at MAX_SUMMARY_LENGTH characters instead of above it: a
\* mutant of Truncate
TruncateAtLimit(line) ==
    IF Len(line) >= MAX_SUMMARY_LENGTH
    THEN SubSeq(line, 1, MAX_SUMMARY_LENGTH) \o <<46, 46, 46>>
    ELSE line

\* line[:MAX_SUMMARY_LENGTH] + '...'
Truncate(line) ==
    IF Len(line) > MAX_SUMMARY_LENGTH
    THEN SubSeq(line, 1, MAX_SUMMARY_LENGTH) \o <<46, 46, 46>>
    ELSE line

\* the summary lines of BlogGenerator.add_issue_info: the first
\* MAX_SUMMARY_LINES pieces of body.split('\n'), stripped, the blank ones
\* dropped, heading marks removed, long lines cut
SummaryLines(body) ==
    LET pieces == split(body, 10)
        first == SubSeq(pieces, 1, IF Len(pieces) < MAX_SUMMARY_LINES THEN Len(pieces) ELSE MAX_SUMMARY_LINES)
        stripped == [k \in 1..Len(first) |-> strip(first[k])]
        kept == SelectSeq(stripped, LAMBDA l : l # <<>>)
    IN  [k \in 1..Len(kept) |->
            Truncate(IF kept[k][1] = 35 THEN strip(lstripHash(kept[k])) ELSE kept[k])]

\* BlogGenerator.add_issue_info(issue, md): the item line, then the summary
\* lines and a blank line when the body has any
add_issue_info(sec, issue) ==
    LET item == <<Line(sec, "item", issue.number, <<>>)>>
        summary == IF IsNone(issue.body) \/ issue.body = Some(<<>>) THEN <<>>
                   ELSE SummaryLines(Val(issue.body))
    IN  IF summary = <<>> THEN item
        ELSE item
             \o [k \in 1..Len(summary) |-> Line(sec, "summary", issue.number, summary[k])]
             \o <<Line(sec, "blank", 0, <<>>)>>

\* main.add_issue_info(issue, md): the item line only
main_add_issue_info(sec, issue) == <<Line(sec, "item", issue.number, <<>>)>>

\* the concatenation of a sequence of sequences
RECURSIVE Flatten(_)
Flatten(ss) == IF ss = <<>> THEN <<>> ELSE Head(ss) \o Flatten(Tail(ss))

\* the lines of a sequence of issues, each rendered by Info
RenderAll(sec, xs, Info(_, _)) == Flatten([k \in 1..Len(xs) |-> Info(sec, xs[k])])

Owned(xs) == SelectSeq(xs, is_me)

---------------------------------------------------------------------------
(* The friends table of BlogGenerator *)

\* "名字", "链接", "描述": the keys of FRIENDS_INFO_DICT
K_name == <<21517, 23383>>

K_link == <<38142, 25509>>

K_desc == <<25551, 36848>>

\* the test for a heart with the test of its author left out: a mutant of
\* is_hearted_by_me
is_hearted_by_anyone(comment) ==
    \E k \in 1..Len(comment.reactions) : comment.reactions[k].content = "heart"

\* is_hearted_by_me(comment, me)
is_hearted_by_me(comment) ==
    \E k \in 1..Len(comment.reactions) :
        comment.reactions[k].content = "heart" /\ comment.reactions[k].user = ME

\* l.isspace()
isspace(l) == l # <<>> /\ \A k \in 1..Len(l) : l[k] \in Whitespace

\* the parser with the first line of a key kept instead of the last: a
\* mutant of _make_friend_table_string
_make_friend_table_string_first_wins(s) ==
    LET string_list == SelectSeq(splitlines(s), LAMBDA l : l # <<>> /\ ~isspace(l))
        pairs == SelectSeq([k \in 1..Len(string_list) |-> split(string_list[k], 65306)],
                           LAMBDA p : Len(p) >= 2)
        value(key) ==
            LET at == {k \in 1..Len(pairs) : pairs[k][1] = key}
            IN  IF at = {} THEN <<>>
                ELSE pairs[CHOOSE k \in at : \A m \in at : m >= k][2]
    IN  <<value(K_name), value(K_link), value(K_desc)>>

\* _make_friend_table_string(s): the row of the values that the lines
\* key：value (code point 65306) give to the three keys; a later line
\* overwrites an earlier one, a key no line carries keeps ""
_make_friend_table_string(s) ==
    LET string_list == SelectSeq(splitlines(s), LAMBDA l : l # <<>> /\ ~isspace(l))
        pairs == SelectSeq([k \in 1..Len(string_list) |-> split(string_list[k], 65306)],
                           LAMBDA p : Len(p) >= 2)
        value(key) ==
            LET at == {k \in 1..Len(pairs) : pairs[k][1] = key}
            IN  IF at = {} THEN <<>>
                ELSE pairs[CHOOSE k \in at : \A m \in at : m <= k][2]
    IN  <<value(K_name), value(K_link), value(K_desc)>>

\* the rows of the hearted comments of one friends issue
FriendRows(issue) ==
    LET hearted == SelectSeq(issue.comments, is_hearted_by_me)
    IN  [k \in 1..Len(hearted) |->
            _make_friend_table_string(IF IsNone(hearted[k].body) THEN <<>> ELSE Val(hearted[k].body))]

TableLine(rows) ==
    [sec |-> "friends", kind |-> "table", issue |-> 0, text |-> <<>>, rows |-> rows]

\* what add_md_firends appends: nothing without a friends issue, else the
\* heading (it links to the first friends issue), the collapsible block with
\* the table of all rows
FriendsLines ==
    LET friends_issues == get_issues(FRIENDS_LABELS)
    IN  IF FRIENDS_LABELS = {} \/ friends_issues = <<>> THEN <<>>
        ELSE <<Line("friends", "heading", friends_issues[1].number, <<>>),
               Line("friends", "details_open", 0, <<>>),
               TableLine(Flatten([k \in 1..Len(friends_issues) |-> FriendRows(friends_issues[k])])),
               Line("friends", "details_close", 0, <<>>),
               Line("friends", "blank", 0, <<>>)>>

\* add_md_firends raises: issue.get_comments() of a friends issue
\* (comments_fail) or comment.get_reactions() of one of its comments
\* (reactions_fail) raises, and nothing in add_md_firends catches it
FriendsRaised ==
    \E k \in 1..Len(get_issues(FRIENDS_LABELS)) :
        LET issue == get_issues(FRIENDS_LABELS)[k]
        IN  \/ issue.comments_fail
            \/ \E c \in 1..Len(issue.comments) : issue.comments[c].reactions_fail

---------------------------------------------------------------------------
(* The section renderers of BlogGenerator: what each appends to README.md *)

\* add_md_header: MD_HEAD and the line with the time of generation
HeaderLines == <<Line("header", "head", 0, <<>>), Line("header", "timestamp", 0, <<>>)>>

\* add_md_top
TopLines ==
    LET top_issues == get_issues(TOP_ISSUES_LABELS)
    IN  IF TOP_ISSUES_LABELS = {} \/ top_issues = <<>> THEN <<>>
        ELSE <<Line("top", "heading", 0, <<>>)>>
             \o RenderAll("top", Owned(SortByUpdatedDesc(top_issues)), add_issue_info)

\* the loop of add_md_recent over the sorted issues: the owned ones are
\* rendered until count reaches limit
RECURSIVE RecentLoop(_, _, _)
RecentLoop(xs, count, limit) ==
    IF xs = <<>> THEN <<>>
    ELSE IF ~is_me(Head(xs)) THEN RecentLoop(Tail(xs), count, limit)
    ELSE <<Head(xs)>> \o (IF count + 1 >= limit THEN <<>> ELSE RecentLoop(Tail(xs), count + 1, limit))

\* add_md_recent with the heading written after the issues are fetched: a
\* mutant of RecentLines
RecentLinesHeadingLate(fails) ==
    IF fails THEN <<>>
    ELSE <<Line("recent", "heading", 0, <<>>)>>
         \o RenderAll("recent", RecentLoop(SortByUpdatedDesc(issues), 0, RECENT_ISSUE_LIMIT),
                      add_issue_info)

\* add_md_recent: the heading first; an exception of the enumeration of the
\* issues (fails) is caught and leaves the heading alone
RecentLines(fails) ==
    <<Line("recent", "heading", 0, <<>>)>>
    \o (IF fails THEN <<>>
        ELSE RenderAll("recent", RecentLoop(SortByUpdatedDesc(issues), 0, RECENT_ISSUE_LIMIT),
                       add_issue_info))

\* the loop of add_md_label over the issues of one label with the block
\* opened one item late: a mutant of LabelLoop
RECURSIVE LabelLoopLate(_, _)
LabelLoopLate(xs, i) ==
    IF xs = <<>> THEN [lines |-> <<>>, i |-> i]
    ELSE IF ~is_me(Head(xs)) THEN LabelLoopLate(Tail(xs), i)
    ELSE LET r == LabelLoopLate(Tail(xs), i + 1)
         IN  [lines |-> (IF i = ANCHOR_NUMBER + 1
                         THEN <<Line("label", "details_open", 0, <<>>), Line("label", "blank", 0, <<>>)>>
                         ELSE <<>>)
                        \o add_issue_info("label", Head(xs)) \o r.lines,
              i |-> r.i]

\* the loop of add_md_label over the issues of one label: i counts the owned
\* issues rendered, and the collapsible block opens before item number
\* ANCHOR_NUMBER + 1
RECURSIVE LabelLoop(_, _)
LabelLoop(xs, i) ==
    IF xs = <<>> THEN [lines |-> <<>>, i |-> i]
    ELSE IF ~is_me(Head(xs)) THEN LabelLoop(Tail(xs), i)
    ELSE LET r == LabelLoop(Tail(xs), i + 1)
         IN  [lines |-> (IF i = ANCHOR_NUMBER
                         THEN <<Line("label", "details_open", 0, <<>>), Line("label", "blank", 0, <<>>)>>
                         ELSE <<>>)
                        \o add_issue_info("label", Head(xs)) \o r.lines,
              i |-> r.i]

\* the section of one label with the block closed from ANCHOR_NUMBER items
\* on: a mutant of LabelSection
LabelSectionClosesEarly(label) ==
    LET found == get_issues_from_label(label)
        r == LabelLoop(SortByUpdatedDesc(found), 0)
    IN  (IF found # <<>> THEN <<Line("label", "heading", 0, label.name)>> ELSE <<>>)
        \o r.lines
        \o (IF r.i >= ANCHOR_NUMBER
            THEN <<Line("label", "details_close", 0, <<>>), Line("label", "blank", 0, <<>>)>>
            ELSE <<>>)

\* the section of one label: the heading when an issue carries the label,
\* the items, and the end of the collapsible block when it was opened
LabelSection(label) ==
    LET found == get_issues_from_label(label)
        r == LabelLoop(SortByUpdatedDesc(found), 0)
    IN  (IF found # <<>> THEN <<Line("label", "heading", 0, label.name)>> ELSE <<>>)
        \o r.lines
        \o (IF r.i > ANCHOR_NUMBER
            THEN <<Line("label", "details_close", 0, <<>>), Line("label", "blank", 0, <<>>)>>
            ELSE <<>>)

\* the labels add_md_label renders, with the reserved names kept: a mutant of
\* LabelsToRender
LabelsToRenderAll(ignore) == SortLabels(labels)

\* the labels add_md_label renders, in order: the sorted labels whose name is
\* not in the reserved set
LabelsToRender(ignore) == SelectSeq(SortLabels(labels), LAMBDA l : l.name \notin ignore)

\* add_md_label
LabelLines ==
    LET ls == LabelsToRender(IGNORE_LABELS)
    IN  Flatten([k \in 1..Len(ls) |-> LabelSection(ls[k])])

\* the loop of add_md_todo over the sorted issues: for each owned issue the
\* line of parse_TODO's summary, the task lines and a blank line; the
\* exception of parse_TODO ends the loop
RECURSIVE TodoLoop(_)
TodoLoop(xs) ==
    IF xs = <<>> THEN [lines |-> <<>>, raised |-> FALSE]
    ELSE IF ~is_me(Head(xs)) THEN TodoLoop(Tail(xs))
    ELSE LET issue == Head(xs)
             p == parse_TODO(issue)
             r == TodoLoop(Tail(xs))
         IN  IF p.raised THEN [lines |-> <<>>, raised |-> TRUE]
             ELSE [lines |->
                      <<Line("todo", IF p.allDone THEN "todo_all_done" ELSE "todo_counts",
                             issue.number, IF p.allDone THEN <<>> ELSE <<p.undone, p.done>>)>>
                      \o [k \in 1..Len(p.list) |-> Line("todo", "task", issue.number, p.list[k])]
                      \o <<Line("todo", "blank", 0, <<>>)>>
                      \o r.lines,
                   raised |-> r.raised]

\* add_md_todo
TodoLines ==
    LET todo_issues == get_issues(TODO_ISSUES_LABELS)
        r == TodoLoop(SortByUpdatedDesc(todo_issues))
    IN  IF TODO_ISSUES_LABELS = {} \/ todo_issues = <<>> THEN [lines |-> <<>>, raised |-> FALSE]
        ELSE [lines |-> <<Line("todo", "heading", 0, <<>>)>> \o r.lines, raised |-> r.raised]

---------------------------------------------------------------------------
(* The section renderers of main.py *)

\* regenerate_readme: the new head of README.md
MainHeaderLines == <<Line("header", "head", 0, <<>>)>>

\* main.add_md_top
MainTopLines ==
    LET top_issues == get_issues(MAIN_TOP_ISSUES_LABELS)
    IN  IF MAIN_TOP_ISSUES_LABELS = {} \/ top_issues = <<>> THEN <<>>
        ELSE <<Line("top", "heading", 0, <<>>)>>
             \o RenderAll("top", Owned(SortByUpdatedDesc(top_issues)), main_add_issue_info)

\* main.add_md_todo
MainTodoLines ==
    LET todo_issues == get_issues(MAIN_TODO_ISSUES_LABELS)
    IN  IF MAIN_TODO_ISSUES_LABELS = {} \/ todo_issues = <<>> THEN <<>>
        ELSE <<Line("todo", "heading", 0, <<>>)>>
             \o RenderAll("todo", Owned(SortByUpdatedDesc(todo_issues)), main_add_issue_info)

\* main.add_md_label: for each label the heading when an issue carries it,
\* the owned issues, and a blank line when one was rendered
MainLabelSection(label) ==
    LET issues_list == get_issues_from_label(label)
        mine == Owned(SortByUpdatedDesc(issues_list))
    IN  (IF issues_list # <<>> THEN <<Line("label", "heading", 0, label.name)>> ELSE <<>>)
        \o RenderAll("label", mine, main_add_issue_info)
        \o (IF Len(mine) > 0 THEN <<Line("label", "blank", 0, <<>>)>> ELSE <<>>)

MainLabelLines ==
    LET ls == LabelsToRender(MAIN_IGNORE_LABELS)
    IN  Flatten([k \in 1..Len(ls) |-> MainLabelSection(ls[k])])

\* main.add_md_recent
MainRecentLines(fails) ==
    <<Line("recent", "heading", 0, <<>>)>>
    \o (IF fails THEN <<>>
        ELSE RenderAll("recent", RecentLoop(SortByUpdatedDesc(issues), 0, MAIN_RECENT_ISSUE_LIMIT),
                       main_add_issue_info))

\* main.add_md_firends: the issues of the other users
MainFriendsLines(fails) ==
    LET friend_issues == SortByUpdatedDesc(SelectSeq(issues, LAMBDA i : ~is_me(i)))
    IN  IF fails \/ friend_issues = <<>> THEN <<>>
        ELSE <<Line("friends", "heading", 0, <<>>)>>
             \o RenderAll("friends", friend_issues, main_add_issue_info)

\* regenerate_readme: the update log that ends README.md
MainChangelogLines == <<Line("changelog", "heading", 0, <<>>), Line("changelog", "timestamp", 0, <<>>)>>

---------------------------------------------------------------------------
(* The run: BlogGenerator.run writes the header, then calls add_md_firends, *)
(* add_md_top, add_md_recent, add_md_label and add_md_todo;                 *)
(* main.regenerate_readme writes its header, then calls add_md_top,         *)
(* add_md_todo, add_md_label, add_md_recent and add_md_firends and appends  *)
(* the update log.  Both go on to the feed.                                 *)

\* add_md_header opening README.md in append mode: a mutant of add_md_header
add_md_header_appends ==
    /\ impl = "blog_generator" /\ pc = "header"
    /\ doc' = doc \o HeaderLines
    /\ pc' = "friends"
    /\ UNCHANGED <<impl, labels, issues, arg, ret, feed, archive, log>>

\* add_md_header: README.md is opened with "w", which truncates it
add_md_header ==
    /\ impl = "blog_generator" /\ pc = "header"
    /\ doc' = HeaderLines
    /\ pc' = "friends"
    /\ UNCHANGED <<impl, labels, issues, arg, ret, feed, archive, log>>

\* the table is written after every comment is read: an exception of
\* get_comments or get_reactions leaves README.md as it is and ends the run
add_md_firends ==
    /\ impl = "blog_generator" /\ pc = "friends"
    /\ doc' = IF FriendsRaised THEN doc ELSE doc \o FriendsLines
    /\ pc' = IF FriendsRaised THEN "error" ELSE "top"
    /\ UNCHANGED <<impl, labels, issues, arg, ret, feed, archive, log>>

add_md_top ==
    /\ impl = "blog_generator" /\ pc = "top"
    /\ doc' = doc \o TopLines
    /\ pc' = "recent"
    /\ UNCHANGED <<impl, labels, issues, arg, ret, feed, archive, log>>

add_md_recent ==
    /\ impl = "blog_generator" /\ pc = "recent"
    /\ \E fails \in BOOLEAN : doc' = doc \o RecentLines(fails)
    /\ pc' = "label"
    /\ UNCHANGED <<impl, labels, issues, arg, ret, feed, archive, log>>

add_md_label ==
    /\ impl = "blog_generator" /\ pc = "label"
    /\ doc' = doc \o LabelLines
    /\ pc' = "todo"
    /\ UNCHANGED <<impl, labels, issues, arg, ret, feed, archive, log>>

\* the lines written before parse_TODO raised stay in README.md, and the
\* exception ends the run
add_md_todo ==
    /\ impl = "blog_generator" /\ pc = "todo"
    /\ doc' = doc \o TodoLines.lines
    /\ pc' = IF TodoLines.raised THEN "error" ELSE "feed"
    /\ UNCHANGED <<impl, labels, issues, arg, ret, feed, archive, log>>

\* regenerate_readme: README.md is opened with "w" and gets its new head
main_header ==
    /\ impl = "main" /\ pc = "header"
    /\ doc' = MainHeaderLines
    /\ pc' = "top"
    /\ UNCHANGED <<impl, labels, issues, arg, ret, feed, archive, log>>

main_add_md_top ==
    /\ impl = "main" /\ pc = "top"
    /\ doc' = doc \o MainTopLines
    /\ pc' = "todo"
    /\ UNCHANGED <<impl, labels, issues, arg, ret, feed, archive, log>>

main_add_md_todo ==
    /\ impl = "main" /\ pc = "todo"
    /\ doc' = doc \o MainTodoLines
    /\ pc' = "label"
    /\ UNCHANGED <<impl, labels, issues, arg, ret, feed, archive, log>>

main_add_md_label ==
    /\ impl = "main" /\ pc = "label"
    /\ doc' = doc \o MainLabelLines
    /\ pc' = "recent"
    /\ UNCHANGED <<impl, labels, issues, arg, ret, feed, archive, log>>

main_add_md_recent ==
    /\ impl = "main" /\ pc = "recent"
    /\ \E fails \in BOOLEAN : doc' = doc \o MainRecentLines(fails)
    /\ pc' = "friends"
    /\ UNCHANGED <<impl, labels, issues, arg, ret, feed, archive, log>>

main_add_md_firends ==
    /\ impl = "main" /\ pc = "friends"
    /\ \E fails \in BOOLEAN : doc' = doc \o MainFriendsLines(fails)
    /\ pc' = "changelog"
    /\ UNCHANGED <<impl, labels, issues, arg, ret, feed, archive, log>>

main_changelog ==
    /\ impl = "main" /\ pc = "changelog"
    /\ doc' = doc \o MainChangelogLines
    /\ pc' = "feed"
    /\ UNCHANGED <<impl, labels, issues, arg, ret, feed, archive, log>>

\* the test with the carriage return left out of the control characters
\* that are kept: a mutant of _valid_xml_char_ordinal
_valid_xml_char_ordinal_no_cr(c) ==
    \/ (32 <= c /\ c <= 55295)
    \/ c \in {9, 10}
    \/ (57344 <= c /\ c <= 65533)
    \/ (65536 <= c /\ c <= 1114111)

\* _valid_xml_char_ordinal(c): 0x20..0xD7FF, 0x9, 0xA, 0xD, 0xE000..0xFFFD,
\* 0x10000..0x10FFFF
_valid_xml_char_ordinal(c) ==
    \/ (32 <= c /\ c <= 55295)
    \/ c \in {9, 10, 13}
    \/ (57344 <= c /\ c <= 65533)
    \/ (65536 <= c /\ c <= 1114111)

\* "".join(c for c in issue.body if self._valid_xml_char_ordinal(c)): the
\* text that is converted to the entry's content
FeedBody(body) == SelectSeq(body, _valid_xml_char_ordinal)

\* the entries in the order of the enumeration: a mutant of FeedEntries
FeedEntriesUnsorted ==
    LET kept == SelectSeq(issues,
                          LAMBDA i : ~IsNone(i.body) /\ i.body # Some(<<>>) /\ is_me(i)
                                     /\ ~i.pull_request)
    IN  [k \in 1..Len(kept) |->
            [number |-> kept[k].number, body |-> FeedBody(Val(kept[k].body))]]

\* the entries BlogGenerator.generate_rss_feed adds: one for each issue, the
\* latest update first, that has a body, is the owner's and is no pull
\* request
FeedEntries ==
    LET kept == SelectSeq(SortByUpdatedDesc(issues),
                          LAMBDA i : ~IsNone(i.body) /\ i.body # Some(<<>>) /\ is_me(i)
                                     /\ ~i.pull_request)
    IN  [k \in 1..Len(kept) |->
            [number |-> kept[k].number, body |-> FeedBody(Val(kept[k].body))]]

\* the issues main.generate_rss_feed makes items of: the owner's, the latest
\* update first, at most RECENT_ISSUE_LIMIT of them
MainFeedIssues ==
    LET mine == SortByUpdatedDesc(Owned(issues))
    IN  SubSeq(mine, 1, Min(Len(mine), MAIN_RECENT_ISSUE_LIMIT))

\* len(issue.body) raises for an issue without body
MainFeedRaised == \E k \in 1..Len(MainFeedIssues) : IsNone(MainFeedIssues[k].body)

\* issue.body[:200] + '...' if len(issue.body) > 200 else issue.body
MainFeedDescription(body) ==
    IF Len(body) > 200 THEN SubSeq(body, 1, 200) \o <<46, 46, 46>> ELSE body

MainFeedEntries ==
    [k \in 1..Len(MainFeedIssues) |->
        [number |-> MainFeedIssues[k].number,
         body |-> MainFeedDescription(Val(MainFeedIssues[k].body))]]

\* BlogGenerator.generate_rss_feed: feed.xml is written; run goes on to the
\* archive
generate_rss_feed ==
    /\ impl = "blog_generator" /\ pc = "feed"
    /\ feed' = Some(FeedEntries)
    /\ pc' = "archive"
    /\ UNCHANGED <<impl, labels, issues, doc, arg, ret, archive, log>>

\* main.generate_rss_feed: feed.xml is written once every item is built; an
\* exception is logged and raised again
main_generate_rss_feed ==
    /\ impl = "main" /\ pc = "feed"
    /\ feed' = IF MainFeedRaised THEN feed ELSE Some(MainFeedEntries)
    /\ pc' = IF MainFeedRaised THEN "error" ELSE "push"
    /\ UNCHANGED <<impl, labels, issues, doc, arg, ret, archive, log>>

Next ==
    \/ add_md_header
    \/ add_md_firends
    \/ add_md_top
    \/ add_md_recent
    \/ add_md_label
    \/ add_md_todo
    \/ main_header
    \/ main_add_md_top
    \/ main_add_md_todo
    \/ main_add_md_label
    \/ main_add_md_recent
    \/ main_add_md_firends
    \/ main_changelog
    \/ generate_rss_feed
    \/ main_generate_rss_feed

---------------------------------------------------------------------------
(* Bounds and the inputs of the runs *)

\* the longest enumeration of issues of a run
MaxIssues == 3

\* the longest enumeration of labels, where the labels vary
MaxLabels == 3

\* the longest enumeration of issues, where one label carries them all
MaxAnchorIssues == 7

\* the most lines of a body given to parse_TODO
MaxLines == 3

\* "Java", "Alpha", "Beta", "Zeta"
S_Java == <<74, 97, 118, 97>>

S_Alpha == <<65, 108, 112, 104, 97>>

S_Beta == <<66, 101, 116, 97>>

S_Zeta == <<90, 101, 116, 97>>

\* "1-intro", "2-docker"
S_1intro == <<49, 45, 105, 110, 116, 114, 111>>

S_2docker == <<50, 45, 100, 111, 99, 107, 101, 114>>

\* "- [x] a", "- [ ] b" and the body made of the two
L_done_a == <<45, 32, 91, 120, 93, 32, 97>>

L_undone_b == <<45, 32, 91, 32, 93, 32, 98>>

TodoBody == L_done_a \o <<10>> \o L_undone_b

\* every label name the configuration of either pipeline reserves
Reserved == IGNORE_LABELS \cup MAIN_IGNORE_LABELS

\* what README.md holds before the run: a line of an earlier run
OldDoc == <<Line("old", "old", 0, <<>>)>>

NoCall == [fn |-> "none"]

Label(name, description) == [name |-> name, description |-> description]

Issue(number, user, updated_at, ls, body) ==
    [number |-> number, user |-> user, updated_at |-> updated_at, labels |-> ls,
     body |-> body, comments |-> <<>>, comments_fail |-> FALSE, pull_request |-> FALSE,
     title |-> <<105, 48 + number>>, created_at |-> 1]

\* the sequences of at most n elements of S
SeqsUpTo(S, n) == UNION {[1..m -> S] : m \in 0..n}

\* an issue without its number: it carries one plain label or every label
\* there is; one shape has no body
IssueShapes ==
    {[user |-> u, updated_at |-> t, labels |-> ls, body |-> Some(TodoBody)] :
        u \in {ME, SOMEBODY}, t \in {1, 2}, ls \in {{S_Java}, Reserved \cup {S_Java}}}
    \cup {[user |-> ME, updated_at |-> 1, labels |-> Reserved \cup {S_Java}, body |-> None]}

Numbered(shapes) ==
    [k \in 1..Len(shapes) |->
        Issue(k, shapes[k].user, shapes[k].updated_at, shapes[k].labels, shapes[k].body)]

\* a run over a tracker with one label of every reserved name and a plain one
Init ==
    /\ impl \in {"blog_generator", "main"}
    /\ labels = <<Label(S_Java, None), Label(S_Top, None), Label(S_ZhiDing, None),
                  Label(S_TODO, None), Label(S_DaiBan, None), Label(S_Friends, None),
                  Label(S_About, None), Label(S_bug, None), Label(S_enhancement, None)>>
    /\ \E shapes \in SeqsUpTo(IssueShapes, MaxIssues) : issues = Numbered(shapes)
    /\ doc = OldDoc
    /\ pc = "header"
    /\ arg = NoCall
    /\ ret = NoCall
    /\ feed = None
    /\ archive = <<>>
    /\ log = <<>>

Spec == Init /\ [][Next]_vars

\* a run over a tracker whose labels vary in name, description and order;
\* one owned issue carries them all
LabelNames == {S_Alpha, S_Beta, S_Zeta, S_Top}

Descriptions == {None, Some(<<>>), Some(S_1intro), Some(S_2docker)}

InitLabel ==
    /\ impl \in {"blog_generator", "main"}
    /\ \E names \in SeqsUpTo(LabelNames, MaxLabels) :
         /\ \A i, j \in 1..Len(names) : i # j => names[i] # names[j]
         /\ \E ds \in [1..Len(names) -> Descriptions] :
              labels = [k \in 1..Len(names) |-> Label(names[k], ds[k])]
    /\ issues = <<Issue(1, ME, 1, LabelNames, Some(TodoBody))>>
    /\ doc = OldDoc
    /\ pc = "header"
    /\ arg = NoCall
    /\ ret = NoCall
    /\ feed = None
    /\ archive = <<>>
    /\ log = <<>>

SpecLabel == InitLabel /\ [][Next]_vars

\* a run over a tracker with one label, carried by every issue; the issues
\* vary in number and in author
InitAnchor ==
    /\ impl \in {"blog_generator", "main"}
    /\ labels = <<Label(S_Java, None)>>
    /\ \E users \in SeqsUpTo({ME, SOMEBODY}, MaxAnchorIssues) :
         issues = [k \in 1..Len(users) |-> Issue(k, users[k], 1, {S_Java}, Some(TodoBody))]
    /\ doc = OldDoc
    /\ pc = "header"
    /\ arg = NoCall
    /\ ret = NoCall
    /\ feed = None
    /\ archive = <<>>
    /\ log = <<>>

SpecAnchor == InitAnchor /\ [][Next]_vars

\* a run over a tracker with two labels: every issue carries the first one,
\* and the second one is carried by no issue, by the first issue of the
\* enumeration or by every issue; the issues vary in number and in author
InitDetails ==
    /\ impl \in {"blog_generator", "main"}
    /\ labels = <<Label(S_Beta, None), Label(S_Alpha, None)>>
    /\ \E users \in SeqsUpTo({ME, SOMEBODY}, MaxAnchorIssues),
          second \in {"none", "first", "all"} :
         issues = [k \in 1..Len(users) |->
                      Issue(k, users[k], 1,
                            IF second = "all" \/ (second = "first" /\ k = 1)
                            THEN {S_Alpha, S_Beta} ELSE {S_Alpha},
                            Some(<<98>>))]
    /\ doc = OldDoc
    /\ pc = "header"
    /\ arg = NoCall
    /\ ret = NoCall
    /\ feed = None
    /\ archive = <<>>
    /\ log = <<>>

SpecDetails == InitDetails /\ [][Next]_vars

---------------------------------------------------------------------------
(* A direct call of parse_TODO *)

\* "- [ ] a", "- [X] a", " - [ ] a", "- [ ]", "ab"
L_undone_a == <<45, 32, 91, 32, 93, 32, 97>>

L_capital_a == <<45, 32, 91, 88, 93, 32, 97>>

L_indented_a == <<32, 45, 32, 91, 32, 93, 32, 97>>

L_short == <<45, 32, 91, 32, 93>>

L_text == <<97, 98>>

\* the lines a body is made of: undone, done, near misses of the two
\* markers, plain text and the empty line
TodoLineUniverse ==
    {L_undone_a, L_undone_b, L_done_a, L_capital_a, L_indented_a, L_short, L_text, <<>>}

\* the issue passed to parse_TODO has no body, or a body of at most MaxLines
\* lines joined by "\n" or by "\r\n"
InitTodo ==
    /\ impl = "blog_generator"
    /\ labels = <<Label(S_TODO, None)>>
    /\ issues = <<>>
    /\ doc = <<>>
    /\ pc = "call"
    /\ \/ arg = [fn |-> "parse_TODO", lines |-> <<>>, issue |-> Issue(1, ME, 1, {S_TODO}, None)]
       \/ \E ls \in SeqsUpTo(TodoLineUniverse, MaxLines), sep \in {<<10>>, <<13, 10>>} :
            arg = [fn |-> "parse_TODO", lines |-> ls,
                   issue |-> Issue(1, ME, 1, {S_TODO}, Some(Join(ls, sep)))]
    /\ ret = NoCall
    /\ feed = None
    /\ archive = <<>>
    /\ log = <<>>

call_parse_TODO ==
    /\ pc = "call" /\ arg.fn = "parse_TODO"
    /\ ret' = parse_TODO(arg.issue)
    /\ pc' = "returned"
    /\ UNCHANGED <<impl, labels, issues, doc, arg, feed, archive, log>>

NextTodo == call_parse_TODO

SpecTodo == InitTodo /\ [][NextTodo]_vars

---------------------------------------------------------------------------
(* The name of the archive file of an issue (save_issue) *)

\* c.isalnum(), for the characters of the model's texts: the ASCII digits
\* and letters, the letters of Latin-1 and the CJK ideographs
isalnum(c) ==
    \/ (48 <= c /\ c <= 57)
    \/ (65 <= c /\ c <= 90)
    \/ (97 <= c /\ c <= 122)
    \/ (192 <= c /\ c <= 255 /\ c # 215 /\ c # 247)
    \/ (19968 <= c /\ c <= 40959)

\* s.replace(old, new) for two characters
replace(s, old, new) == [k \in 1..Len(s) |-> IF s[k] = old THEN new ELSE s[k]]

\* the three replacements with the backslash turned into a slash: a mutant
\* of safe_title
safe_title_backslash_to_slash(title) ==
    replace(replace(replace(title, 47, 45), 32, 46), 92, 47)

\* BlogGenerator.save_issue: issue.title.replace('/', '-').replace(' ', '.')
\* .replace('\\', '-')
safe_title(title) ==
    replace(replace(replace(title, 47, 45), 32, 46), 92, 45)

\* main.save_issue: the same replacements, then only the characters that
\* are alphanumeric or one of . - _ are kept
main_safe_title(title) ==
    SelectSeq(safe_title(title), LAMBDA c : isalnum(c) \/ c \in {46, 45, 95})

\* str(n) of a natural number: its decimal digits
RECURSIVE str(_)
str(n) == IF n < 10 THEN <<48 + n>> ELSE str(n \div 10) \o <<48 + (n % 10)>>

\* the file name without the number of the issue: a mutant of md_name
md_name_without_number(issue) ==
    LET t == IF impl = "blog_generator" THEN safe_title(issue.title)
             ELSE main_safe_title(issue.title)
    IN  [number |-> issue.number, safe_title |-> t, path |-> t \o <<46, 109, 100>>]

\* the name save_issue gives the archive file of an issue:
\* "{issue.number}_{safe_title}.md" in the backup directory (path is that
\* text, the directory left out since it is the same for every file)
md_name(issue) ==
    LET t == IF impl = "blog_generator" THEN safe_title(issue.title)
             ELSE main_safe_title(issue.title)
    IN  [number |-> issue.number, safe_title |-> t,
         path |-> str(issue.number) \o <<95>> \o t \o <<46, 109, 100>>]

\* "未知时间"
S_UnknownTime == <<26410, 30693, 26102, 38388>>

\* "时间格式化失败"
S_FormatFailed == <<26102, 38388, 26684, 24335, 21270, 22833, 36133>>

\* "(无内容)"
S_NoContent == <<40, 26080, 20869, 23481, 41>>

\* "(无评论内容)"
S_NoCommentContent == <<40, 26080, 35780, 35770, 20869, 23481, 41>>

\* a value given as a time: kind says what it is ("datetime", a "str", an
\* "int", "none" for None, "broken" for an object whose strftime raises)
\* and str is the text str(value)
TimeValue(kind, text) == [kind |-> kind, str |-> text]

\* the datetime 2023-01-0d 12:00:00 of the day d (1..9): the creation and
\* update times of the issues and comments of the model
datetime(d) ==
    TimeValue("datetime", <<50, 48, 50, 51, 45, 48, 49, 45, 48, 48 + d,
                            32, 49, 50, 58, 48, 48, 58, 48, 48>>)

\* BlogGenerator.format_time(time): str(time)[:10]
format_time(time) == SubSeq(time.str, 1, Min(10, Len(time.str)))

\* main.format_time(time_obj): strftime("%Y-%m-%d %H:%M:%S") when the value
\* has a strftime, "未知时间" when it has none, "时间格式化失败" when strftime
\* raises
main_format_time(time_obj) ==
    IF time_obj.kind = "datetime" THEN SubSeq(time_obj.str, 1, 19)
    ELSE IF time_obj.kind = "broken" THEN S_FormatFailed
    ELSE S_UnknownTime

\* one write of save_issue into the archive file
FileLine(kind, text, time, names) ==
    [kind |-> kind, text |-> text, time |-> time, labels |-> names]

\* the title line, main's metadata block, the content heading and the body
\* (or the placeholder for a body that is None or empty)
SaveHead(issue) ==
    <<FileLine("title", issue.title, <<>>, {})>>
    \o (IF impl = "main"
        THEN <<FileLine("meta_heading", <<>>, <<>>, {}),
               FileLine("meta_created", <<>>, main_format_time(datetime(issue.created_at)), {}),
               FileLine("meta_updated", <<>>, main_format_time(datetime(issue.updated_at)), {})>>
             \o (IF issue.labels # {}
                 THEN <<FileLine("meta_labels", <<>>, <<>>, issue.labels)>>
                 ELSE <<>>)
        ELSE <<>>)
    \o <<FileLine("content_heading", <<>>, <<>>, {}),
         FileLine("body",
                  IF IsNone(issue.body) \/ Val(issue.body) = <<>> THEN S_NoContent
                  ELSE Val(issue.body),
                  <<>>, {})>>

\* what save_issue writes for one comment of the owner
CommentEntry(c) ==
    FileLine("comment",
             IF c.body = <<>> THEN S_NoCommentContent ELSE c.body,
             IF impl = "blog_generator" THEN format_time(c.created_at)
             ELSE main_format_time(c.created_at),
             {})

\* the comments part: the heading when the issue has a comment at all, then
\* the comments for which is_me holds
SaveComments(issue) ==
    IF issue.comments = <<>> THEN <<>>
    ELSE <<FileLine("comments_heading", <<>>, <<>>, {})>>
         \o [k \in 1..Len(SelectSeq(issue.comments, is_me)) |->
               CommentEntry(SelectSeq(issue.comments, is_me)[k])]

\* what the file holds when save_issue is over: everything, or what was
\* written before issue.get_comments() raised
SaveLines(issue) ==
    IF issue.comments_fail THEN SaveHead(issue)
    ELSE SaveHead(issue) \o SaveComments(issue)

\* the file opened for appending: a mutant of SaveFile
SaveFileAppending(files, issue) ==
    LET name == md_name(issue).path
    IN  [p \in DOMAIN files \cup {name} |->
           IF p = name
           THEN (IF name \in DOMAIN files THEN files[name] ELSE <<>>) \o SaveLines(issue)
           ELSE files[p]]

\* open(md_name, "w") and the writes: the file of this name holds what this
\* call wrote, whatever it held before; the other files are left alone
SaveFile(files, issue) ==
    LET name == md_name(issue).path
    IN  [p \in DOMAIN files \cup {name} |->
           IF p = name THEN SaveLines(issue) ELSE files[p]]

\* save_issue(issue); the exception of issue.get_comments() is logged and
\* raised again
call_save_issue ==
    /\ pc = "call" /\ arg.fn = "save_issue"
    /\ ret' = md_name(arg.issue)
    /\ archive' = SaveFile(archive, arg.issue)
    /\ pc' = IF arg.issue.comments_fail THEN "error" ELSE "returned"
    /\ UNCHANGED <<impl, labels, issues, doc, arg, feed, log>>

\* save_issue of an issue whose title is the sanitized title of the call
\* before
call_save_issue_again ==
    /\ pc = "returned" /\ arg.fn = "save_issue"
    /\ arg' = [arg EXCEPT !.issue.title = ret.safe_title]
    /\ ret' = md_name([arg.issue EXCEPT !.title = ret.safe_title])
    /\ archive' = SaveFile(archive, [arg.issue EXCEPT !.title = ret.safe_title])
    /\ pc' = "returned_again"
    /\ UNCHANGED <<impl, labels, issues, doc, feed, log>>

NextSave == call_save_issue \/ call_save_issue_again

\* the longest title that is made of the characters of TitleChars
MaxTitleLen == 3

\* '/', ' ', '\', 'A', '7', '.', '-', '_', ':', U+4E2D
TitleChars == {47, 32, 92, 65, 55, 46, 45, 95, 58, 20013}

\* "A/B C\D"
T_example == <<65, 47, 66, 32, 67, 92, 68>>

\* an issue with this title
Titled(title) == [Issue(1, ME, 1, {}, None) EXCEPT !.title = title]

InitSave ==
    /\ impl \in {"blog_generator", "main"}
    /\ labels = <<>>
    /\ issues = <<>>
    /\ doc = <<>>
    /\ pc = "call"
    /\ \E title \in SeqsUpTo(TitleChars, MaxTitleLen) \cup {T_example} :
         arg = [fn |-> "save_issue", issue |-> Titled(title)]
    /\ ret = NoCall
    /\ feed = None
    /\ archive = <<>>
    /\ log = <<>>

SpecSave == InitSave /\ [][NextSave]_vars

---------------------------------------------------------------------------
(* A direct call of BlogGenerator.add_issue_info *)

\* the most lines of a body given to add_issue_info
MaxBodyLines == 4

\* the text made of n times the character c
Rep(c, n) == [k \in 1..n |-> c]

\* "", " \t", "ab", "## cd ", 50 times "x", 60 times "z", "#" and 50 times
\* "w", "# " and 51 times "v"
SummaryLineUniverse ==
    {<<>>, <<32, 9>>, <<97, 98>>, <<35, 35, 32, 99, 100, 32>>,
     Rep(120, MAX_SUMMARY_LENGTH), Rep(122, MAX_SUMMARY_LENGTH + 10),
     <<35>> \o Rep(119, MAX_SUMMARY_LENGTH), <<35, 32>> \o Rep(118, MAX_SUMMARY_LENGTH + 1)}

\* the issue passed to add_issue_info has no body, or a body of at most
\* MaxBodyLines lines joined by "\n"
InitSummary ==
    /\ impl = "blog_generator"
    /\ labels = <<>>
    /\ issues = <<>>
    /\ doc = <<>>
    /\ pc = "call"
    /\ \/ arg = [fn |-> "add_issue_info", lines |-> <<>>, issue |-> Issue(1, ME, 1, {}, None)]
       \/ \E ls \in SeqsUpTo(SummaryLineUniverse, MaxBodyLines) :
            arg = [fn |-> "add_issue_info", lines |-> ls,
                   issue |-> Issue(1, ME, 1, {}, Some(Join(ls, <<10>>)))]
    /\ ret = NoCall
    /\ feed = None
    /\ archive = <<>>
    /\ log = <<>>

call_add_issue_info ==
    /\ pc = "call" /\ arg.fn = "add_issue_info"
    /\ doc' = doc \o add_issue_info("call", arg.issue)
    /\ pc' = "returned"
    /\ UNCHANGED <<impl, labels, issues, arg, ret, feed, archive, log>>

NextSummary == call_add_issue_info

SpecSummary == InitSummary /\ [][NextSummary]_vars

---------------------------------------------------------------------------
(* A direct call of add_md_recent with a limit *)

\* the largest limit passed to add_md_recent
MaxLimit == 2

\* what add_md_recent(md, limit) appends, for either pipeline
RecentLinesLimit(fails, limit) ==
    <<Line("recent", "heading", 0, <<>>)>>
    \o (IF fails THEN <<>>
        ELSE IF impl = "blog_generator"
        THEN RenderAll("recent", RecentLoop(SortByUpdatedDesc(issues), 0, limit), add_issue_info)
        ELSE RenderAll("recent", RecentLoop(SortByUpdatedDesc(issues), 0, limit), main_add_issue_info))

\* the issues vary in author and in update time
RecentShapes ==
    {[user |-> u, updated_at |-> t, labels |-> {S_Java}, body |-> Some(TodoBody)] :
        u \in {ME, SOMEBODY}, t \in {1, 2}}

InitRecent ==
    /\ impl \in {"blog_generator", "main"}
    /\ labels = <<Label(S_Java, None)>>
    /\ \E shapes \in SeqsUpTo(RecentShapes, MaxIssues) : issues = Numbered(shapes)
    /\ doc = <<>>
    /\ pc = "call"
    /\ \E limit \in 0..MaxLimit : arg = [fn |-> "add_md_recent", limit |-> limit]
    /\ ret = NoCall
    /\ feed = None
    /\ archive = <<>>
    /\ log = <<>>

\* add_md_recent(md, limit); ret records whether the enumeration of the
\* issues raised
call_add_md_recent ==
    /\ pc = "call" /\ arg.fn = "add_md_recent"
    /\ \E fails \in BOOLEAN :
         /\ doc' = doc \o RecentLinesLimit(fails, arg.limit)
         /\ ret' = [fn |-> "add_md_recent", failed |-> fails]
    /\ pc' = "returned"
    /\ UNCHANGED <<impl, labels, issues, arg, feed, archive, log>>

NextRecent == call_add_md_recent

SpecRecent == InitRecent /\ [][NextRecent]_vars

---------------------------------------------------------------------------
(* get_to_generate_issues *)

\* the issue_number given to the run: None, a str (the command line's) or
\* an int (main.main converts the str it gets)
NoId == [kind |-> "none", text |-> <<>>, value |-> 0]

StrId(text) == [kind |-> "str", text |-> text, value |-> 0]

IntId(n) == [kind |-> "int", text |-> <<>>, value |-> n]

\* the truth value Python gives issue_number in "if issue_number:"
Truthy(id) ==
    IF id.kind = "none" THEN FALSE
    ELSE IF id.kind = "str" THEN id.text # <<>>
    ELSE id.value # 0

\* the number a text of decimal digits stands for
RECURSIVE DigitsValue(_)
DigitsValue(ds) ==
    IF ds = <<>> THEN 0 ELSE 10 * DigitsValue(SubSeq(ds, 1, Len(ds) - 1)) + (ds[Len(ds)] - 48)

\* int(issue_number): an int is itself; a str is stripped of whitespace and
\* read as an optional sign and decimal digits, anything else raises
\* ValueError
int(id) ==
    IF id.kind = "int" THEN [raised |-> FALSE, value |-> id.value]
    ELSE LET s == strip(id.text)
             signed == s # <<>> /\ s[1] \in {43, 45}
             ds == IF signed THEN Tail(s) ELSE s
         IN  IF ds = <<>> \/ \E k \in 1..Len(ds) : ds[k] < 48 \/ ds[k] > 57
             THEN [raised |-> TRUE, value |-> 0]
             ELSE [raised |-> FALSE,
                   value |-> IF signed /\ s[1] = 45 THEN 0 - DigitsValue(ds) ELSE DigitsValue(ds)]

\* repo.get_issue(n): the issue of that number; it raises when there is none
get_issue(n) ==
    LET found == SelectSeq(issues, LAMBDA i : i.number = n)
    IN  IF found = <<>> THEN [raised |-> TRUE, list |-> <<>>]
        ELSE [raised |-> FALSE, list |-> <<found[1]>>]

\* get_to_generate_issues: all the issues are listed first (fails: the
\* enumeration raises, which BlogGenerator passes on and main answers with
\* []); with an issue_number that is true, [the issue of that number], or []
\* when int() or the lookup raises; else all the issues
get_to_generate_issues(id, fails) ==
    IF fails
    THEN [raised |-> impl = "blog_generator", list |-> <<>>]
    ELSE IF Truthy(id)
    THEN IF int(id).raised \/ get_issue(int(id).value).raised
         THEN [raised |-> FALSE, list |-> <<>>]
         ELSE [raised |-> FALSE, list |-> get_issue(int(id).value).list]
    ELSE [raised |-> FALSE, list |-> issues]

\* "1", "2", " 2 ", "7", "0", "-1", "ab", "1a"
RequestedTexts ==
    {<<49>>, <<50>>, <<32, 50, 32>>, <<55>>, <<48>>, <<45, 49>>, <<97, 98>>, <<49, 97>>}

\* the ids a run can be given: the str ids reach both functions, the int
\* ids the function of main.py
RequestedIds ==
    {NoId, StrId(<<>>)} \cup {StrId(t) : t \in RequestedTexts}
    \cup {IntId(n) : n \in {0, 1, 2, 7}}

\* the tracker enumerates the issues from the newest to the oldest
InitTarget ==
    /\ impl \in {"blog_generator", "main"}
    /\ labels = <<>>
    /\ \E users \in SeqsUpTo({ME, SOMEBODY}, MaxIssues) :
         issues = [k \in 1..Len(users) |->
                      Issue(Len(users) + 1 - k, users[k], k, {}, Some(TodoBody))]
    /\ doc = <<>>
    /\ pc = "call"
    /\ \E id \in RequestedIds :
         /\ id.kind = "int" => impl = "main"
         /\ arg = [fn |-> "get_to_generate_issues", id |-> id]
    /\ ret = NoCall
    /\ feed = None
    /\ archive = <<>>
    /\ log = <<>>

call_get_to_generate_issues ==
    /\ pc = "call" /\ arg.fn = "get_to_generate_issues"
    /\ \E fails \in BOOLEAN :
         ret' = [fn |-> "get_to_generate_issues", enum_failed |-> fails,
                 result |-> get_to_generate_issues(arg.id, fails)]
    /\ pc' = "returned"
    /\ UNCHANGED <<impl, labels, issues, doc, arg, feed, archive, log>>

NextTarget == call_get_to_generate_issues

SpecTarget == InitTarget /\ [][NextTarget]_vars

---------------------------------------------------------------------------
(* A direct call of BlogGenerator.add_md_firends *)

\* the most comments of the tracker
MaxComments == 3

Reaction(content, user) == [content |-> content, user |-> user]

Comment(body, reactions, reactions_fail) ==
    [body |-> body, reactions |-> reactions, reactions_fail |-> reactions_fail,
     user |-> SOMEBODY, created_at |-> datetime(1)]

\* the reactions of a comment: a heart of the owner after a reaction of
\* somebody else ("mine"), a heart of somebody else ("theirs"), a reaction of
\* the owner that is no heart ("laugh"), or reactions that cannot be
\* fetched ("fail")
CommentKinds == {"mine", "theirs", "laugh", "fail"}

ReactionsOf(kind) ==
    IF kind = "mine" THEN <<Reaction("laugh", SOMEBODY), Reaction("heart", ME)>>
    ELSE IF kind = "theirs" THEN <<Reaction("heart", SOMEBODY)>>
    ELSE IF kind = "laugh" THEN <<Reaction("laugh", ME)>>
    ELSE <<>>

\* the body of the j-th comment of the tracker: "名字：" and the digit j,
\* then the line "链接：u"
FriendBody(j) == K_name \o <<65306, 48 + j>> \o <<10>> \o K_link \o <<65306, 117>>

\* the comments of the issue at place k of the enumeration: the entries of
\* the plan that name k, in the plan's order
CommentsAt(plan, k) ==
    LET idx == SelectSeq([j \in 1..Len(plan) |-> j], LAMBDA j : plan[j].at = k)
    IN  [m \in 1..Len(idx) |->
            Comment(Some(FriendBody(idx[m])), ReactionsOf(plan[idx[m]].kind),
                    plan[idx[m]].kind = "fail")]

\* three issues, the newest first: number 3 (Friends), number 2 (no Friends
\* label), number 1 (Friends); the comments are spread over them, and the
\* comments of one friends issue may fail to be fetched
InitFriends ==
    /\ impl = "blog_generator"
    /\ labels = <<Label(S_Friends, None), Label(S_Java, None)>>
    /\ \E plan \in SeqsUpTo([kind : CommentKinds, at : 1..3], MaxComments),
          failing \in {0, 1, 3} :
         issues = [k \in 1..3 |->
                      [Issue(4 - k, IF k = 1 THEN SOMEBODY ELSE ME, k,
                             IF k = 2 THEN {S_Java} ELSE {S_Friends}, Some(TodoBody))
                       EXCEPT !.comments = IF k = failing THEN <<>> ELSE CommentsAt(plan, k),
                              !.comments_fail = (k = failing)]]
    /\ doc = <<>>
    /\ pc = "call"
    /\ arg = [fn |-> "add_md_firends"]
    /\ ret = NoCall
    /\ feed = None
    /\ archive = <<>>
    /\ log = <<>>

\* add_md_firends(md)
call_add_md_firends ==
    /\ pc = "call" /\ arg.fn = "add_md_firends"
    /\ doc' = IF FriendsRaised THEN doc ELSE doc \o FriendsLines
    /\ ret' = [fn |-> "add_md_firends", raised |-> FriendsRaised]
    /\ pc' = "returned"
    /\ UNCHANGED <<impl, labels, issues, arg, feed, archive, log>>

NextFriends == call_add_md_firends

SpecFriends == InitFriends /\ [][NextFriends]_vars

---------------------------------------------------------------------------
(* A direct call of _make_friend_table_string *)

\* the most lines of a comment body given to _make_friend_table_string
MaxRowLines == 3

\* "名字：a", "名字：b", "链接：u", "描述：d", "", "  ", "ab", "名字：a：b",
\* " 名字：c", "名字：", "x：z"
RowLineUniverse ==
    {K_name \o <<65306, 97>>, K_name \o <<65306, 98>>, K_link \o <<65306, 117>>,
     K_desc \o <<65306, 100>>, <<>>, <<32, 32>>, <<97, 98>>,
     K_name \o <<65306, 97, 65306, 98>>, <<32>> \o K_name \o <<65306, 99>>,
     K_name \o <<65306>>, <<120, 65306, 122>>}

InitRow ==
    /\ impl = "blog_generator"
    /\ labels = <<>>
    /\ issues = <<>>
    /\ doc = <<>>
    /\ pc = "call"
    /\ \E ls \in SeqsUpTo(RowLineUniverse, MaxRowLines) :
         arg = [fn |-> "_make_friend_table_string", lines |-> ls, s |-> Join(ls, <<10>>)]
    /\ ret = NoCall
    /\ feed = None
    /\ archive = <<>>
    /\ log = <<>>

call_make_friend_table_string ==
    /\ pc = "call" /\ arg.fn = "_make_friend_table_string"
    /\ ret' = [fn |-> "_make_friend_table_string", row |-> _make_friend_table_string(arg.s)]
    /\ pc' = "returned"
    /\ UNCHANGED <<impl, labels, issues, doc, arg, feed, archive, log>>

NextRow == call_make_friend_table_string

SpecRow == InitRow /\ [][NextRow]_vars

---------------------------------------------------------------------------
(* A direct call of generate_rss_feed *)

\* the longest enumeration of issues given to generate_rss_feed
MaxFeedIssues == 3

\* the issues vary in author, in body (none, "", a text) and in being a
\* pull request
FeedShapes ==
    {[user |-> u, body |-> b, pull_request |-> p] :
        u \in {ME, SOMEBODY}, b \in {None, Some(<<>>), Some(TodoBody)}, p \in BOOLEAN}

InitFeed ==
    /\ impl \in {"blog_generator", "main"}
    /\ labels = <<Label(S_Java, None)>>
    /\ \E shapes \in SeqsUpTo(FeedShapes, MaxFeedIssues) :
         issues = [k \in 1..Len(shapes) |->
                      [Issue(k, shapes[k].user, k, {S_Java}, shapes[k].body)
                       EXCEPT !.pull_request = shapes[k].pull_request]]
    /\ doc = <<>>
    /\ pc = "call"
    /\ arg = [fn |-> "generate_rss_feed"]
    /\ ret = NoCall
    /\ feed = None
    /\ archive = <<>>
    /\ log = <<>>

\* generate_rss_feed of either pipeline
call_generate_rss_feed ==
    /\ pc = "call" /\ arg.fn = "generate_rss_feed"
    /\ feed' = IF impl = "blog_generator" THEN Some(FeedEntries)
               ELSE IF MainFeedRaised THEN feed
               ELSE Some(MainFeedEntries)
    /\ ret' = [fn |-> "generate_rss_feed", raised |-> impl = "main" /\ MainFeedRaised]
    /\ pc' = "returned"
    /\ UNCHANGED <<impl, labels, issues, doc, arg, archive, log>>

NextFeed == call_generate_rss_feed

SpecFeed == InitFeed /\ [][NextFeed]_vars

---------------------------------------------------------------------------
(* generate_rss_feed over issues that vary in update time *)

InitFeedOrder ==
    /\ impl \in {"blog_generator", "main"}
    /\ labels = <<Label(S_Java, None)>>
    /\ \E shapes \in SeqsUpTo([user : {ME, SOMEBODY}, updated_at : 1..3], MaxFeedIssues) :
         issues = [k \in 1..Len(shapes) |->
                      Issue(k, shapes[k].user, shapes[k].updated_at, {S_Java}, Some(TodoBody))]
    /\ doc = <<>>
    /\ pc = "call"
    /\ arg = [fn |-> "generate_rss_feed"]
    /\ ret = NoCall
    /\ feed = None
    /\ archive = <<>>
    /\ log = <<>>

SpecFeedOrder == InitFeedOrder /\ [][NextFeed]_vars

---------------------------------------------------------------------------
(* generate_rss_feed over one issue whose body varies in its characters *)

\* the longest body made of the characters of FeedChars
MaxFeedBodyLen == 3

\* U+0000, tab, LF, VT, CR, U+001F, space, U+D7FF, U+D800, U+DFFF, U+E000,
\* U+FFFD, U+FFFE, U+FFFF, U+10000
FeedChars == {0, 9, 10, 11, 13, 31, 32, 55295, 55296, 57343, 57344, 65533, 65534, 65535, 65536}

InitFeedText ==
    /\ impl = "blog_generator"
    /\ labels = <<Label(S_Java, None)>>
    /\ \E body \in SeqsUpTo(FeedChars, MaxFeedBodyLen) :
         issues = <<Issue(1, ME, 1, {S_Java}, Some(body))>>
    /\ doc = <<>>
    /\ pc = "call"
    /\ arg = [fn |-> "generate_rss_feed"]
    /\ ret = NoCall
    /\ feed = None
    /\ archive = <<>>
    /\ log = <<>>

SpecFeedText == InitFeedText /\ [][NextFeed]_vars

---------------------------------------------------------------------------
(* A direct call of save_issue on an issue with comments, run twice *)

\* the most comments of the archived issue
MaxArchiveComments == 3

\* the comments of the archived issue: the k-th one is of the owner or of
\* somebody else, with the body "c<k>" or no body, created on the day k
ArchiveCommentKinds == {"mine", "mine_empty", "theirs", "theirs_empty"}

ArchiveComment(kind, k) ==
    [Comment(IF kind \in {"mine", "theirs"} THEN <<99, 48 + k>> ELSE <<>>, <<>>, FALSE)
       EXCEPT !.user = IF kind \in {"mine", "mine_empty"} THEN ME ELSE SOMEBODY,
              !.created_at = datetime(k)]

\* lines an earlier run, or something else, left in a file
StaleFile == <<FileLine("stale", <<115>>, <<>>, {})>>

InitArchive ==
    /\ impl \in {"blog_generator", "main"}
    /\ labels = <<>>
    /\ issues = <<>>
    /\ doc = <<>>
    /\ pc = "call"
    /\ \E body \in {None, Some(<<>>), Some(<<98>>)}, fails \in BOOLEAN,
          plan \in SeqsUpTo(ArchiveCommentKinds, MaxArchiveComments) :
         arg = [fn |-> "save_issue",
                issue |-> [Issue(1, ME, 2, {S_Java}, body) EXCEPT
                             !.comments = [k \in 1..Len(plan) |-> ArchiveComment(plan[k], k)],
                             !.comments_fail = fails]]
    /\ ret = NoCall
    /\ feed = None
    /\ \E before \in {"nothing", "same_name", "other_name"} :
         archive = IF before = "nothing" THEN <<>>
                   ELSE [p \in {IF before = "same_name" THEN md_name(arg.issue).path
                                ELSE <<57, 95, 122, 46, 109, 100>>} |-> StaleFile]
    /\ log = <<>>

\* save_issue(issue) once more, on the same issue
call_save_issue_rerun ==
    /\ pc \in {"returned", "error"} /\ arg.fn = "save_issue"
    /\ ret' = md_name(arg.issue)
    /\ archive' = SaveFile(archive, arg.issue)
    /\ pc' = IF arg.issue.comments_fail THEN "error_again" ELSE "rerun"
    /\ UNCHANGED <<impl, labels, issues, doc, arg, feed, log>>

NextArchive == call_save_issue \/ call_save_issue_rerun

SpecArchive == InitArchive /\ [][NextArchive]_vars

---------------------------------------------------------------------------
(* A direct call of format_time *)

\* the longest text given to format_time that is made of TimeChars
MaxTimeTextLen == 2

\* 'n', 'o', ' ', '2', '1', '-'
TimeChars == {110, 111, 32, 50, 49, 45}

\* "not a time object"
S_NotATime == <<110, 111, 116, 32, 97, 32, 116, 105, 109, 101, 32, 111, 98,
                106, 101, 99, 116>>

\* the values given to format_time: datetimes with and without
\* microseconds, texts, None, an integer, an object whose strftime raises
TimeValues ==
    {datetime(d) : d \in 1..3}
    \cup {TimeValue("datetime", datetime(d).str \o <<46, 49, 50, 51, 52, 53, 54>>) : d \in 1..3}
    \cup {TimeValue("str", t) : t \in SeqsUpTo(TimeChars, MaxTimeTextLen) \cup {S_NotATime}}
    \cup {TimeValue("none", <<78, 111, 110, 101>>),
          TimeValue("int", <<52, 50>>),
          TimeValue("broken", <<60, 77, 111, 99, 107, 62>>)}

InitTime ==
    /\ impl \in {"blog_generator", "main"}
    /\ labels = <<>>
    /\ issues = <<>>
    /\ doc = <<>>
    /\ pc = "call"
    /\ \E t \in TimeValues : arg = [fn |-> "format_time", time |-> t]
    /\ ret = NoCall
    /\ feed = None
    /\ archive = <<>>
    /\ log = <<>>

\* format_time(time): neither implementation lets an exception out
call_format_time ==
    /\ pc = "call" /\ arg.fn = "format_time"
    /\ ret' = [fn |-> "format_time", raised |-> FALSE,
               value |-> IF impl = "blog_generator" THEN format_time(arg.time)
                         ELSE main_format_time(arg.time)]
    /\ pc' = "returned"
    /\ UNCHANGED <<impl, labels, issues, doc, arg, feed, archive, log>>

NextTime == call_format_time

SpecTime == InitTime /\ [][NextTime]_vars

---------------------------------------------------------------------------
(* The whole run: BlogGenerator.run and main.main *)

\* one entry of the log: a call the run made (with the numbers of the
\* issues it returned or was given) or a failure it met
Event(ev, numbers, raised) == [ev |-> ev, numbers |-> numbers, raised |-> raised]

\* the numbers of a list of issues
NumbersOf(list) == [k \in 1..Len(list) |-> list[k].number]

\* main.main: '' and None become None; anything else is given to int(), and
\* a ValueError makes it None too
MainIssueNumber(id) ==
    IF id.kind = "none" \/ (id.kind = "str" /\ id.text = <<>>) THEN NoId
    ELSE IF int(id).raised THEN NoId
    ELSE IntId(int(id).value)

\* BlogGenerator.run: '' becomes None
RunIssueNumber(id) == IF id.kind = "str" /\ id.text = <<>> THEN NoId ELSE id

\* main.main up to the loop over to_generate_issues
main_get_to_generate_issues ==
    /\ impl = "main" /\ pc = "main"
    /\ \E fails \in BOOLEAN :
         LET r == get_to_generate_issues(MainIssueNumber(arg.id), fails)
         IN  /\ ret' = [fn |-> "get_to_generate_issues", todo |-> r.list]
             /\ log' = Append(log, Event("get_to_generate_issues", NumbersOf(r.list), r.raised))
    /\ pc' = "save"
    /\ UNCHANGED <<impl, labels, issues, doc, arg, feed, archive>>

\* BlogGenerator.run after the feed, up to the loop over to_generate_issues;
\* an exception of the enumeration ends the run
run_get_to_generate_issues ==
    /\ impl = "blog_generator" /\ pc = "archive"
    /\ \E fails \in BOOLEAN :
         LET r == get_to_generate_issues(RunIssueNumber(arg.id), fails)
         IN  /\ ret' = [fn |-> "get_to_generate_issues", todo |-> r.list]
             /\ log' = Append(log, Event("get_to_generate_issues", NumbersOf(r.list), r.raised))
             /\ pc' = IF r.raised THEN "error" ELSE "save"
    /\ UNCHANGED <<impl, labels, issues, doc, arg, feed, archive>>

\* one turn of the loop: save_issue(issue); its exception ends the run
save_next_issue ==
    /\ pc = "save" /\ ret.todo # <<>>
    /\ archive' = SaveFile(archive, Head(ret.todo))
    /\ log' = Append(log, Event("save_issue", <<Head(ret.todo).number>>, Head(ret.todo).comments_fail))
    /\ ret' = [ret EXCEPT !.todo = Tail(ret.todo)]
    /\ pc' = IF Head(ret.todo).comments_fail THEN "error" ELSE "save"
    /\ UNCHANGED <<impl, labels, issues, doc, arg, feed>>

\* main.main after the loop: regenerate_readme(repo, repo_name, me) begins
main_regenerate_readme ==
    /\ impl = "main" /\ pc = "save" /\ ret.todo = <<>>
    /\ log' = Append(log, Event("regenerate_readme", <<>>, FALSE))
    /\ pc' = "header"
    /\ UNCHANGED <<impl, labels, issues, doc, arg, ret, feed, archive>>

\* BlogGenerator.run after the loop
run_done ==
    /\ impl = "blog_generator" /\ pc = "save" /\ ret.todo = <<>>
    /\ pc' = "done"
    /\ UNCHANGED <<impl, labels, issues, doc, arg, ret, feed, archive, log>>

\* main.main after regenerate_readme: push_to_backup_branch(dir_name) in a
\* try whose except only warns
push_to_backup_branch ==
    /\ impl = "main" /\ pc = "push"
    /\ \E fails \in BOOLEAN :
         log' = Append(log, Event("push_to_backup_branch", <<>>, fails))
    /\ pc' = "done"
    /\ UNCHANGED <<impl, labels, issues, doc, arg, ret, feed, archive>>

NextRun ==
    \/ Next
    \/ main_get_to_generate_issues
    \/ run_get_to_generate_issues
    \/ save_next_issue
    \/ main_regenerate_readme
    \/ run_done
    \/ push_to_backup_branch

\* the longest enumeration of issues of a whole run
MaxRunIssues == 2

\* the issues of a whole run: the owner's with a body, the owner's without
\* body (None) or with an empty one, both labelled TODO, somebody else's
RunIssueKinds == {"mine", "mine_no_body", "mine_empty_body", "theirs"}

RunIssue(kind, number, updated_at) ==
    Issue(number, IF kind = "theirs" THEN SOMEBODY ELSE ME, updated_at,
          IF kind \in {"mine_no_body", "mine_empty_body"} THEN {S_TODO} ELSE {},
          IF kind = "mine_no_body" THEN None
          ELSE IF kind = "mine_empty_body" THEN Some(<<>>)
          ELSE Some(<<98>>))

\* None, "", "1", "7", "ab"
RunIds == {NoId, StrId(<<>>), StrId(<<49>>), StrId(<<55>>), StrId(<<97, 98>>)}

\* BlogGenerator.run begins with the header, main.main with the issues to
\* archive; the tracker enumerates the issues from the newest to the oldest
InitRun ==
    /\ impl \in {"blog_generator", "main"}
    /\ labels = <<>>
    /\ \E kinds \in SeqsUpTo(RunIssueKinds, MaxRunIssues) :
         issues = [k \in 1..Len(kinds) |->
                      RunIssue(kinds[k], Len(kinds) + 1 - k, Len(kinds) + 1 - k)]
    /\ doc = OldDoc
    /\ pc = IF impl = "main" THEN "main" ELSE "header"
    /\ \E id \in RunIds : arg = [fn |-> "run", id |-> id]
    /\ ret = NoCall
    /\ feed = None
    /\ archive = <<>>
    /\ log = <<>>

SpecRun == InitRun /\ [][NextRun]_vars

---------------------------------------------------------------------------
(* The whole run when a write can fail *)

\* the writes of the renderer of a step of BlogGenerator.run, when none fails
SectionLines(step, fails) ==
    CASE step = "header" -> HeaderLines
      [] step = "friends" -> FriendsLines
      [] step = "top" -> TopLines
      [] step = "recent" -> RecentLines(fails)
      [] step = "label" -> LabelLines
      [] step = "todo" -> TodoLines.lines

\* the writes of a step of main.regenerate_readme, when none fails
MainSectionLines(step, fails) ==
    CASE step = "header" -> MainHeaderLines
      [] step = "top" -> MainTopLines
      [] step = "todo" -> MainTodoLines
      [] step = "label" -> MainLabelLines
      [] step = "recent" -> MainRecentLines(fails)
      [] step = "friends" -> MainFriendsLines(fails)
      [] step = "changelog" -> MainChangelogLines

\* the step of main.regenerate_readme that follows a step
MainStepAfter(step) ==
    CASE step = "header" -> "top"
      [] step = "top" -> "todo"
      [] step = "todo" -> "label"
      [] step = "label" -> "recent"
      [] step = "recent" -> "friends"
      [] step = "friends" -> "changelog"
      [] step = "changelog" -> "feed"

\* a sequence without its k-th element
Without(s, k) == SubSeq(s, 1, k - 1) \o SubSeq(s, k + 1, Len(s))

\* a renderer of BlogGenerator.run whose k-th write raises: the writes
\* before it are in README.md; add_md_recent has its writes inside a try
\* whose except only prints, so the run goes on with the next renderer; no
\* other renderer catches, and run re-raises
md_write_raises ==
    /\ impl = "blog_generator"
    /\ pc \in {"header", "friends", "top", "recent", "label", "todo"}
    /\ ~(pc = "friends" /\ FriendsRaised)
    /\ \E fails \in BOOLEAN :
         \E k \in 1..Len(SectionLines(pc, fails)) :
            doc' = (IF pc = "header" THEN <<>> ELSE doc)
                   \o SubSeq(SectionLines(pc, fails), 1, k - 1)
    /\ pc' = IF pc = "recent" THEN "label" ELSE "error"
    /\ log' = Append(log, Event("write_failed", <<>>, pc # "recent"))
    /\ UNCHANGED <<impl, labels, issues, arg, ret, feed, archive>>

\* a step of main.regenerate_readme whose k-th write raises: add_issue_info
\* catches the exception of its own write and only logs it, so an item line
\* is lost and the step goes on; add_md_recent and add_md_firends have their
\* other writes inside a try that only logs, so the rest of the section is
\* lost and regenerate_readme goes on; everywhere else the exception is
\* raised again up to main
main_md_write_raises ==
    /\ impl = "main"
    /\ pc \in {"header", "top", "todo", "label", "recent", "friends", "changelog"}
    /\ \E fails \in BOOLEAN :
         \E k \in 1..Len(MainSectionLines(pc, fails)) :
            LET lines == MainSectionLines(pc, fails)
                caught == lines[k].kind = "item" \/ pc \in {"recent", "friends"}
            IN  /\ doc' = (IF pc = "header" THEN <<>> ELSE doc)
                          \o (IF lines[k].kind = "item" THEN Without(lines, k)
                              ELSE SubSeq(lines, 1, k - 1))
                /\ pc' = IF caught THEN MainStepAfter(pc) ELSE "error"
                /\ log' = Append(log, Event("write_failed", <<>>, ~caught))
    /\ UNCHANGED <<impl, labels, issues, arg, ret, feed, archive>>

\* save_issue whose k-th write raises: the writes before it are in the
\* file, the exception is logged and raised again, and the run ends
save_issue_write_raises ==
    /\ pc = "save" /\ ret.todo # <<>>
    /\ \E k \in 1..Len(SaveLines(Head(ret.todo))) :
         archive' = [p \in DOMAIN archive \cup {md_name(Head(ret.todo)).path} |->
                       IF p = md_name(Head(ret.todo)).path
                       THEN SubSeq(SaveLines(Head(ret.todo)), 1, k - 1)
                       ELSE archive[p]]
    /\ log' = log \o <<Event("save_issue", <<Head(ret.todo).number>>, TRUE),
                       Event("write_failed", <<>>, TRUE)>>
    /\ ret' = [ret EXCEPT !.todo = Tail(ret.todo)]
    /\ pc' = "error"
    /\ UNCHANGED <<impl, labels, issues, doc, arg, feed>>

NextDisk ==
    \/ NextRun
    \/ md_write_raises
    \/ main_md_write_raises
    \/ save_issue_write_raises

SpecDisk == InitRun /\ [][NextDisk]_vars

---------------------------------------------------------------------------
(* save_issue on two issues, one after the other *)

\* the longest title of the two issues
MaxPathTitleLen == 2

\* '1', '2', '_', '/'
PathTitleChars == {49, 50, 95, 47}

\* the numbers of the two issues
PathNumbers == {1, 11, 12}

\* an issue of this number and title whose body is the text of its number
Numbered_Titled(number, title) ==
    [Issue(number, ME, 1, {}, Some(str(number))) EXCEPT !.title = title]

InitPaths ==
    /\ impl \in {"blog_generator", "main"}
    /\ labels = <<>>
    /\ issues = <<>>
    /\ doc = <<>>
    /\ pc = "call"
    /\ \E n1 \in PathNumbers, n2 \in PathNumbers,
          t1 \in SeqsUpTo(PathTitleChars, MaxPathTitleLen),
          t2 \in SeqsUpTo(PathTitleChars, MaxPathTitleLen) :
         /\ n1 # n2
         /\ arg = [fn |-> "save_two", first |-> Numbered_Titled(n1, t1),
                second |-> Numbered_Titled(n2, t2)]
    /\ ret = NoCall
    /\ feed = None
    /\ archive = <<>>
    /\ log = <<>>

\* save_issue(first)
call_save_first ==
    /\ pc = "call" /\ arg.fn = "save_two"
    /\ ret' = md_name(arg.first)
    /\ archive' = SaveFile(archive, arg.first)
    /\ pc' = "saved_first"
    /\ UNCHANGED <<impl, labels, issues, doc, arg, feed, log>>

\* save_issue(second)
call_save_second ==
    /\ pc = "saved_first" /\ arg.fn = "save_two"
    /\ ret' = md_name(arg.second)
    /\ archive' = SaveFile(archive, arg.second)
    /\ pc' = "saved_both"
    /\ UNCHANGED <<impl, labels, issues, doc, arg, feed, log>>

NextPaths == call_save_first \/ call_save_second

SpecPaths == InitPaths /\ [][NextPaths]_vars

---------------------------------------------------------------------------
(* What the properties speak of *)

\* the steps of the two runs, in the order of the calls
BGOrder == <<"header", "friends", "top", "recent", "label", "todo", "feed", "archive">>

MainOrder == <<"header", "top", "todo", "label", "recent", "friends", "changelog", "feed", "push">>

StepPos(order, step) == CHOOSE k \in 1..Len(order) : order[k] = step

\* the renderer of this step has run
Ran(step) ==
    LET order == IF impl = "blog_generator" THEN BGOrder ELSE MainOrder
    IN  pc = "error" \/ (pc \in {order[k] : k \in 1..Len(order)} /\ StepPos(order, pc) > StepPos(order, step))

\* the place of an issue in the enumeration of the tracker
EnumPos(number) == CHOOSE k \in 1..Len(issues) : issues[k].number = number

IssueOf(number) == issues[EnumPos(number)]

LabelOf(name) == labels[CHOOSE k \in 1..Len(labels) : labels[k].name = name]

\* the line renders an issue: an item line, or the summary line of a TODO issue
IsIssueLine(l) == l.kind \in {"item", "todo_all_done", "todo_counts"}

IsPrefix(s, t) == Len(s) <= Len(t) /\ SubSeq(t, 1, Len(s)) = s

\* the positions of README.md whose line is of this section and kind
At(sec, kind) == {k \in 1..Len(doc) : doc[k].sec = sec /\ doc[k].kind = kind}

\* the names of the label headings of README.md, in order
LabelHeadings ==
    LET hs == SelectSeq(doc, LAMBDA l : l.sec = "label" /\ l.kind = "heading")
    IN  [k \in 1..Len(hs) |-> hs[k].text]

\* the line starts with "- [ ] " / with "- [x] ", character by character
IsUndoneLine(l) ==
    Len(l) >= 6 /\ l[1] = 45 /\ l[2] = 32 /\ l[3] = 91 /\ l[4] = 32 /\ l[5] = 93 /\ l[6] = 32

IsDoneLine(l) ==
    Len(l) >= 6 /\ l[1] = 45 /\ l[2] = 32 /\ l[3] = 91 /\ l[4] = 120 /\ l[5] = 93 /\ l[6] = 32

---------------------------------------------------------------------------
(* C1 *)

\* 0: the description is not empty, 1: it is empty, 2: there is none
DescriptionGroup(l) ==
    IF IsNone(l.description) THEN 2 ELSE IF Val(l.description) = <<>> THEN 1 ELSE 0

\* label a is to be rendered before label b
LabelBefore(a, b) ==
    \/ DescriptionGroup(a) < DescriptionGroup(b)
    \/ /\ DescriptionGroup(a) = 0 /\ DescriptionGroup(b) = 0
       /\ \/ StrLess(Val(a.description), Val(b.description))
          \/ a.description = b.description /\ StrLess(a.name, b.name)
    \/ /\ DescriptionGroup(a) = DescriptionGroup(b) /\ DescriptionGroup(a) # 0
       /\ StrLess(a.name, b.name)

\* C1: once add_md_label has run, the label sections of README.md are those
\* of the labels that are not reserved and that an issue carries, and they
\* stand in the order of the key (description is absent, description is
\* empty, description, name): the labels with a description first, by
\* description then name, then the labels with an empty description, then
\* the labels without one, each by name.
C1_LabelOrder ==
    Ran("label") =>
        /\ \A i, j \in 1..Len(LabelHeadings) :
              i < j => LabelBefore(LabelOf(LabelHeadings[i]), LabelOf(LabelHeadings[j]))
        /\ {LabelHeadings[k] : k \in 1..Len(LabelHeadings)}
              = {labels[k].name : k \in 1..Len(labels)} \ {S_Top}

\* C1 witness: the labels Zeta (description ""), Alpha (description
\* "1-intro") and Beta (no description), enumerated in this order, are
\* rendered as Alpha, Zeta, Beta.
C1_Witness ==
    /\ labels = <<Label(S_Zeta, Some(<<>>)), Label(S_Alpha, Some(S_1intro)), Label(S_Beta, None)>>
    /\ Ran("label")
    /\ LabelHeadings = <<S_Alpha, S_Zeta, S_Beta>>

---------------------------------------------------------------------------
(* C2 *)

\* the reserved names of the pipeline that runs, name by name
ReservedHere ==
    IF impl = "blog_generator" THEN {S_Friends, S_Top, S_TODO, S_About}
    ELSE {S_Top, S_ZhiDing, S_TODO, S_DaiBan, S_bug, S_enhancement}

\* the position of the label heading a line of the label section stands under (0: none)
HeadingAbove(k) ==
    LET hs == {h \in At("label", "heading") : h < k}
    IN  IF hs = {} THEN 0 ELSE CHOOSE h \in hs : \A g \in hs : g <= h

\* C2: README.md never holds a label heading of a reserved name, and every
\* item of the label sections stands under the heading of a label that is
\* not reserved and that the item's issue carries.
C2_NoReservedSection ==
    /\ \A k \in At("label", "heading") : doc[k].text \notin ReservedHere
    /\ \A k \in At("label", "item") :
          /\ HeadingAbove(k) # 0
          /\ doc[HeadingAbove(k)].text \notin ReservedHere
          /\ doc[HeadingAbove(k)].text \in IssueOf(doc[k].issue).labels

\* C2 witness: add_md_label has run over a tracker that has the labels Top
\* and TODO and an owned issue carrying them, and it has rendered that issue
\* under the plain label.
C2_Witness ==
    /\ Ran("label")
    /\ \E i \in 1..Len(issues) :
          /\ is_me(issues[i]) /\ {S_Top, S_TODO} \subseteq issues[i].labels
          /\ \E k \in At("label", "item") :
                doc[k].issue = issues[i].number /\ doc[HeadingAbove(k)].text = S_Java

---------------------------------------------------------------------------
(* C3 *)

\* two lines of one section with no heading of that section between them
SameList(i, j) ==
    /\ doc[i].sec = doc[j].sec
    /\ \A h \in At(doc[i].sec, "heading") : ~(i < h /\ h < j)

\* C3: in the Pinned, TODO and Recent sections and in every label section,
\* an issue rendered before another one was updated later, or at the same
\* time and then it comes earlier in the tracker's enumeration.
C3_SectionOrder ==
    \A i, j \in 1..Len(doc) :
        (/\ i < j
         /\ doc[i].sec \in {"top", "todo", "recent", "label"}
         /\ IsIssueLine(doc[i]) /\ IsIssueLine(doc[j])
         /\ SameList(i, j))
        => \/ IssueOf(doc[i].issue).updated_at > IssueOf(doc[j].issue).updated_at
           \/ /\ IssueOf(doc[i].issue).updated_at = IssueOf(doc[j].issue).updated_at
              /\ EnumPos(doc[i].issue) < EnumPos(doc[j].issue)

\* C3 witness: the Recent section renders three issues, the first updated
\* later than the two that follow, which were updated at the same time.
C3_Witness ==
    \E i, j, k \in At("recent", "item") :
        /\ i < j /\ j < k
        /\ IssueOf(doc[i].issue).updated_at > IssueOf(doc[j].issue).updated_at
        /\ IssueOf(doc[j].issue).updated_at = IssueOf(doc[k].issue).updated_at
        /\ EnumPos(doc[i].issue) > EnumPos(doc[j].issue)

---------------------------------------------------------------------------
(* C4 *)

\* the owned issues that carry the one label of the tracker
OwnedCount == Len(Owned(get_issues({S_Java})))

\* C4: once BlogGenerator.add_md_label has run over a label with n owned
\* issues: when n > ANCHOR_NUMBER there is one collapsible block, it opens
\* after ANCHOR_NUMBER items and holds the n - ANCHOR_NUMBER items that
\* follow; when n <= ANCHOR_NUMBER there is no block.  The issues of other
\* authors do not count.
C4_CollapseThreshold ==
    (impl = "blog_generator" /\ Ran("label")) =>
        IF OwnedCount > ANCHOR_NUMBER
        THEN /\ Cardinality(At("label", "details_open")) = 1
             /\ Cardinality(At("label", "details_close")) = 1
             /\ \A o \in At("label", "details_open"), c \in At("label", "details_close") :
                   /\ o < c
                   /\ Cardinality({k \in At("label", "item") : k < o}) = ANCHOR_NUMBER
                   /\ Cardinality({k \in At("label", "item") : o < k /\ k < c})
                         = OwnedCount - ANCHOR_NUMBER
                   /\ Cardinality({k \in At("label", "item") : c < k}) = 0
        ELSE At("label", "details_open") = {} /\ At("label", "details_close") = {}

\* C4 witness: ANCHOR_NUMBER + 1 owned issues and one issue of another
\* author carry the label, and the block holds one item.
C4_Witness ==
    /\ impl = "blog_generator" /\ Ran("label")
    /\ OwnedCount = ANCHOR_NUMBER + 1
    /\ Len(issues) = ANCHOR_NUMBER + 2
    /\ \E o \in At("label", "details_open"), c \in At("label", "details_close") :
          Cardinality({k \in At("label", "item") : o < k /\ k < c}) = 1

---------------------------------------------------------------------------
(* C5 *)

\* C5: once add_md_recent has run, README.md holds the heading of the Recent
\* section, whatever the issues are and whether or not their enumeration
\* failed.
C5_RecentHeading == Ran("recent") => Cardinality(At("recent", "heading")) = 1

\* C5 witness: add_md_recent has run over a tracker that has owned issues,
\* their enumeration failed, and the heading stands alone.
C5_Witness ==
    /\ Ran("recent")
    /\ Owned(issues) # <<>>
    /\ At("recent", "item") = {}
    /\ At("recent", "heading") # {}

---------------------------------------------------------------------------
(* C6 *)

\* the labels an issue must carry to be pinned, and to be a TODO issue
TopLabelsHere == IF impl = "blog_generator" THEN {S_Top} ELSE {S_Top, S_ZhiDing}

TodoLabelsHere == IF impl = "blog_generator" THEN {S_TODO} ELSE {S_TODO, S_DaiBan}

HasOwned(ls) == \E k \in 1..Len(issues) : is_me(issues[k]) /\ ls \subseteq issues[k].labels

\* C6: a Pinned, TODO or label section whose label no owned issue carries
\* leaves nothing in README.md: no heading and no item.
C6_EmptySectionSilent ==
    /\ ~HasOwned(TopLabelsHere) => \A k \in 1..Len(doc) : doc[k].sec # "top"
    /\ ~HasOwned(TodoLabelsHere) => \A k \in 1..Len(doc) : doc[k].sec # "todo"
    /\ \A k \in At("label", "heading") : HasOwned({doc[k].text})

---------------------------------------------------------------------------
(* C7 *)

\* the place of a section in the order header, Friends, Pinned, Recent,
\* label groups, TODO (7: a section the order does not name)
SectionRank(sec) ==
    CASE sec = "header" -> 1
      [] sec = "friends" -> 2
      [] sec = "top" -> 3
      [] sec = "recent" -> 4
      [] sec = "label" -> 5
      [] sec = "todo" -> 6
      [] OTHER -> 7

\* C7: when the sections are written, README.md starts with the header and
\* its time of generation, and no line of a later section of the order
\* header, Friends, Pinned, Recent, label groups, TODO stands before a line
\* of an earlier one.
C7_SectionOrder ==
    pc = "feed" =>
        /\ At("header", "timestamp") # {}
        /\ \A i, j \in 1..Len(doc) :
              i < j => SectionRank(doc[i].sec) <= SectionRank(doc[j].sec)

---------------------------------------------------------------------------
(* C8 *)

\* C8: the step that writes the header leaves no line of an earlier run in
\* README.md, and every later step of the run leaves what README.md held as
\* the beginning of what it holds afterwards.
C8_AppendOnly ==
    [][/\ pc = "header" => \A k \in 1..Len(doc') : doc'[k].sec = "header"
       /\ pc # "header" => IsPrefix(doc, doc')]_vars

\* C8 witness: the sections are written, README.md holds lines of sections
\* after the header, and none of the lines it held before the run.
C8_Witness ==
    /\ pc = "feed"
    /\ \E k \in 1..Len(doc) : doc[k].sec \in {"top", "recent", "label", "todo"}
    /\ \A k \in 1..Len(doc) : doc[k].sec # "old"

---------------------------------------------------------------------------
(* C9 *)

\* the lines the body was made of
BodyLines == arg.lines

HasBody == ~IsNone(arg.issue.body)

\* C9: parse_TODO on a body without a line that starts with "- [ ] " returns
\* the summary "all done" and an empty task list.
C9_AllDone ==
    (pc = "returned" /\ HasBody /\ \A k \in 1..Len(BodyLines) : ~IsUndoneLine(BodyLines[k]))
        => ~ret.raised /\ ret.allDone /\ ret.list = <<>>

\* C9 witness: parse_TODO has returned on a body that has done lines and no
\* undone line.
C9_Witness ==
    /\ pc = "returned" /\ HasBody
    /\ \E k \in 1..Len(BodyLines) : IsDoneLine(BodyLines[k])
    /\ \A k \in 1..Len(BodyLines) : ~IsUndoneLine(BodyLines[k])
    /\ ret.allDone

---------------------------------------------------------------------------
(* C10 *)

\* C10: parse_TODO on a body with an undone line returns as task list the
\* done lines of the body in their order, then the undone lines in their
\* order, and nothing else, and a summary with the numbers of undone and of
\* done lines of that list.
C10_DoneThenUndone ==
    (pc = "returned" /\ HasBody /\ \E k \in 1..Len(BodyLines) : IsUndoneLine(BodyLines[k]))
        => /\ ~ret.raised /\ ~ret.allDone
           /\ ret.list = SelectSeq(BodyLines, IsDoneLine) \o SelectSeq(BodyLines, IsUndoneLine)
           /\ \A k \in 1..Len(ret.list) : IsDoneLine(ret.list[k]) \/ IsUndoneLine(ret.list[k])
           /\ ret.undone = Cardinality({k \in 1..Len(ret.list) : IsUndoneLine(ret.list[k])})
           /\ ret.done = Cardinality({k \in 1..Len(ret.list) : IsDoneLine(ret.list[k])})

\* C10 witness: parse_TODO has returned on a body whose first line is
\* undone, with a done line and a line of neither kind after it.
C10_Witness ==
    /\ pc = "returned" /\ HasBody
    /\ Len(BodyLines) = 3
    /\ IsUndoneLine(BodyLines[1])
    /\ \E k \in 2..3 : IsDoneLine(BodyLines[k])
    /\ \E k \in 2..3 : ~IsDoneLine(BodyLines[k]) /\ ~IsUndoneLine(BodyLines[k])
    /\ Len(ret.list) = 2

---------------------------------------------------------------------------
(* C11 *)

\* C11: the title-sanitizing step of save_issue, applied to the sanitized
\* title it produced, gives that title back.
C11_SanitizeIdempotent ==
    (pc = "returned_again" /\ arg.fn = "save_issue") => ret.safe_title = arg.issue.title

\* C11 witness: "A/B C\D" was sanitized to "A-B.C-D", and that was
\* sanitized again.
C11_Witness ==
    /\ pc = "returned_again" /\ arg.fn = "save_issue"
    /\ arg.issue.title = <<65, 45, 66, 46, 67, 45, 68>>
    /\ ret.safe_title = <<65, 45, 66, 46, 67, 45, 68>>

---------------------------------------------------------------------------
(* C12 *)

\* the character the claim gives for a character of the title (0: stripped)
SanitizedChar(c) ==
    IF c = 47 \/ c = 92 THEN 45
    ELSE IF c = 32 THEN 46
    ELSE IF isalnum(c) \/ c = 46 \/ c = 45 \/ c = 95 THEN c
    ELSE 0

\* C12: the sanitized title of either save_issue is the title with '/' and
\* '\' turned into '-', ' ' into '.', and every other character that is not
\* alphanumeric or one of . - _ left out; it holds only such characters.
C12_SanitizedCharset ==
    (pc = "returned" /\ arg.fn = "save_issue") =>
        /\ \A k \in 1..Len(ret.safe_title) :
              isalnum(ret.safe_title[k]) \/ ret.safe_title[k] \in {46, 45, 95}
        /\ ret.safe_title =
              SelectSeq([k \in 1..Len(arg.issue.title) |-> SanitizedChar(arg.issue.title[k])],
                        LAMBDA c : c # 0)

---------------------------------------------------------------------------
(* C13 *)

\* the texts of the summary lines written, in order
SummaryWritten ==
    LET ss == SelectSeq(doc, LAMBDA l : l.kind = "summary")
    IN  [k \in 1..Len(ss) |-> ss[k].text]

\* the line is empty or holds only whitespace
IsBlank(l) == \A k \in 1..Len(l) : l[k] \in Whitespace

\* the line without the whitespace around it and without leading '#'
WithoutHeadingMarks(l) ==
    LET s == strip(l) IN IF s # <<>> /\ s[1] = 35 THEN strip(lstripHash(s)) ELSE s

\* what the claims say is emitted for a line: it as it is after the
\* heading marks are stripped, or its first MAX_SUMMARY_LENGTH characters
\* and "..." when it is longer than that
Emitted(l) ==
    LET s == WithoutHeadingMarks(l)
    IN  IF Len(s) > MAX_SUMMARY_LENGTH
        THEN [k \in 1..(MAX_SUMMARY_LENGTH + 3) |-> IF k <= MAX_SUMMARY_LENGTH THEN s[k] ELSE 46]
        ELSE s

\* C13: the summary add_issue_info writes is made of the first
\* MAX_SUMMARY_LINES non-blank lines of the body, in body order, the blank
\* lines skipped before counting; it is empty only when the body is absent
\* or entirely blank.
C13_FirstNonBlankLines ==
    (pc = "returned" /\ arg.fn = "add_issue_info") =>
        LET nonblank == SelectSeq(arg.lines, LAMBDA l : ~IsBlank(l))
            n == Min(MAX_SUMMARY_LINES, Len(nonblank))
        IN  /\ Len(SummaryWritten) = n
            /\ \A k \in 1..n : SummaryWritten[k] = Emitted(nonblank[k])
            /\ (SummaryWritten = <<>>) <=> (nonblank = <<>>)

---------------------------------------------------------------------------
(* C14 *)

\* C14: every summary line written is a non-blank line of the body with its
\* heading marks stripped, unchanged when that has at most
\* MAX_SUMMARY_LENGTH characters, else cut to its first MAX_SUMMARY_LENGTH
\* characters followed by "...".
C14_Truncation ==
    (pc = "returned" /\ arg.fn = "add_issue_info") =>
        \A k \in 1..Len(SummaryWritten) :
            /\ \E j \in 1..Len(arg.lines) :
                  ~IsBlank(arg.lines[j]) /\ SummaryWritten[k] = Emitted(arg.lines[j])
            /\ Len(SummaryWritten[k]) <= MAX_SUMMARY_LENGTH + 3
            /\ \A j \in 1..Len(arg.lines) :
                  (j <= MAX_SUMMARY_LINES /\ ~IsBlank(arg.lines[j]))
                      => \E m \in 1..Len(SummaryWritten) :
                            SummaryWritten[m] = Emitted(arg.lines[j])

\* C14 witness: a line of 60 characters was written as its first 50
\* characters and "...", 53 characters, and a line of 50 characters after
\* its heading mark was written unchanged.
C14_Witness ==
    /\ pc = "returned" /\ arg.fn = "add_issue_info"
    /\ \E j \in 1..Len(arg.lines) : Len(arg.lines[j]) = 60
    /\ \E k \in 1..Len(SummaryWritten) :
          Len(SummaryWritten[k]) = 53 /\ SubSeq(SummaryWritten[k], 51, 53) = <<46, 46, 46>>
    /\ \E k \in 1..Len(SummaryWritten) : SummaryWritten[k] = Rep(119, 50)

---------------------------------------------------------------------------
(* C15 *)

\* the numbers of the issues the Recent section renders, in order
RecentRendered ==
    LET items == SelectSeq(doc, LAMBDA l : l.sec = "recent" /\ l.kind = "item")
    IN  [k \in 1..Len(items) |-> items[k].issue]

\* C15: add_md_recent with a limit >= 0 over a tracker with k owned issues
\* renders min(limit, k) issues, each once: owned ones, the later updated
\* first, and no owned issue it leaves out was updated later than one it
\* renders.
C15_RecentLimit ==
    (pc = "returned" /\ arg.fn = "add_md_recent" /\ ~ret.failed) =>
        LET r == RecentRendered
            shown == {r[k] : k \in 1..Len(r)}
        IN  /\ Len(r) = Min(arg.limit, Len(Owned(issues)))
            /\ Len(r) <= arg.limit
            /\ Cardinality(shown) = Len(r)
            /\ \A n \in shown : is_me(IssueOf(n))
            /\ \A i, j \in 1..Len(r) :
                  i < j => IssueOf(r[i]).updated_at >= IssueOf(r[j]).updated_at
            /\ \A k \in 1..Len(issues) :
                  (is_me(issues[k]) /\ issues[k].number \notin shown)
                      => \A n \in shown : IssueOf(n).updated_at >= issues[k].updated_at

---------------------------------------------------------------------------
(* C16 *)

\* an id is requested: issue_number is neither absent nor the empty string
IdRequested == arg.id.kind # "none" /\ arg.id # StrId(<<>>)

\* the numbers the requested id can stand for: the int itself, or the
\* number a str of digits (whitespace around it aside) writes
RequestedNumbers ==
    IF arg.id.kind = "int" THEN {arg.id.value}
    ELSE LET s == strip(arg.id.text)
         IN  IF s # <<>> /\ \A k \in 1..Len(s) : s[k] \in 48..57
             THEN {n \in 0..9 : s = <<48 + n>>}
             ELSE {}

\* C16: get_to_generate_issues, when the enumeration of the issues works:
\* with a requested id it returns the one issue of that number, or nothing
\* when there is no such issue or the id is not a number, and it does not
\* raise; without a requested id (absent, or the empty string) it returns
\* all the issues in their order.
C16_SelectTarget ==
    (pc = "returned" /\ arg.fn = "get_to_generate_issues" /\ ~ret.enum_failed) =>
        /\ ~ret.result.raised
        /\ IF IdRequested
           THEN LET hits == SelectSeq(issues, LAMBDA i : i.number \in RequestedNumbers)
                IN  IF hits = <<>> THEN ret.result.list = <<>>
                    ELSE ret.result.list = <<hits[1]>>
           ELSE ret.result.list = issues

---------------------------------------------------------------------------
(* C17 *)

\* the rows of the friends table of README.md (none when there is no table)
TableRows ==
    LET ts == SelectSeq(doc, LAMBDA l : l.sec = "friends" /\ l.kind = "table")
    IN  IF ts = <<>> THEN <<>> ELSE ts[1].rows

HasTable == \E k \in 1..Len(doc) : doc[k].sec = "friends" /\ doc[k].kind = "table"

\* the comment carries a heart of the owner
Qualifies(comment) ==
    \E k \in 1..Len(comment.reactions) :
        comment.reactions[k].content = "heart" /\ comment.reactions[k].user = "me"

\* the name on the row of a comment of the tracker: the digit of its body
NameOf(comment) == <<Val(comment.body)[4]>>

\* C17: add_md_firends over a tracker with a friends issue does not raise
\* and writes the section, also when the comments of a friends issue or the
\* reactions of a comment cannot be fetched; the table has the rows of the
\* qualifying comments of the friends issues whose comments and reactions
\* can be fetched.
C17_FriendsFailureContained ==
    (pc = "returned" /\ arg.fn = "add_md_firends") =>
        /\ ~ret.raised
        /\ HasTable
        /\ \A k \in 1..Len(issues) :
              (/\ S_Friends \in issues[k].labels
               /\ ~issues[k].comments_fail
               /\ \A c \in 1..Len(issues[k].comments) : ~issues[k].comments[c].reactions_fail)
              => \A c \in 1..Len(issues[k].comments) :
                    Qualifies(issues[k].comments[c])
                        => \E r \in 1..Len(TableRows) :
                              TableRows[r][1] = NameOf(issues[k].comments[c])

---------------------------------------------------------------------------
(* C18 *)

\* the line has the form key：value for this key: it starts with the key
\* and the full-width colon (code point 65306)
Carries(l, key) ==
    /\ Len(l) > Len(key)
    /\ \A k \in 1..Len(key) : l[k] = key[k]
    /\ l[Len(key) + 1] = 65306

\* the value of such a line: what follows the colon, up to the next
\* full-width colon if the line has one
ValueOfLine(l, key) ==
    LET rest == SubSeq(l, Len(key) + 2, Len(l))
        colons == {k \in 1..Len(rest) : rest[k] = 65306}
    IN  IF colons = {} THEN rest
        ELSE SubSeq(rest, 1, (CHOOSE k \in colons : \A m \in colons : k <= m) - 1)

\* the field of a key: the value of the last line that carries it, "" when
\* no line does
FieldOf(key) ==
    LET at == {j \in 1..Len(arg.lines) : Carries(arg.lines[j], key)}
    IN  IF at = {} THEN <<>>
        ELSE ValueOfLine(arg.lines[CHOOSE j \in at : \A m \in at : m <= j], key)

---------------------------------------------------------------------------
(* C19 *)

\* the comments of the tracker as pairs (place of the issue in the
\* enumeration, place of the comment in the issue), in the order issue by
\* issue, comment by comment
RECURSIVE CommentPairsFrom(_)
CommentPairsFrom(k) ==
    IF k > Len(issues) THEN <<>>
    ELSE [c \in 1..Len(issues[k].comments) |-> <<k, c>>] \o CommentPairsFrom(k + 1)

\* C19: the friends table that add_md_firends writes has one row for each
\* comment that belongs to an issue labelled Friends and carries a heart of
\* the owner, and no other row: not for a heart of somebody else, not for
\* another reaction of the owner, not for a comment of an issue without the
\* label. The rows stand in the order of the issues in the enumeration,
\* then of the comments in the issue.
C19_FriendsRows ==
    (pc = "returned" /\ arg.fn = "add_md_firends" /\ HasTable) =>
        LET qualifying ==
                SelectSeq(CommentPairsFrom(1),
                          LAMBDA p : /\ S_Friends \in issues[p[1]].labels
                                     /\ Qualifies(issues[p[1]].comments[p[2]]))
        IN  /\ Len(TableRows) = Len(qualifying)
            /\ \A r \in 1..Len(qualifying) :
                  TableRows[r][1] = NameOf(issues[qualifying[r][1]].comments[qualifying[r][2]])

\* C19 witness: the newest friends issue has a comment with a heart of
\* somebody else and a later comment with a heart of the owner, the oldest
\* friends issue a comment with a heart of the owner made between the two;
\* the table has the two rows of the owner's hearts, the one of the newest
\* issue first.
C19_Witness ==
    /\ pc = "returned" /\ arg.fn = "add_md_firends" /\ HasTable
    /\ Len(issues[1].comments) = 2
    /\ ~Qualifies(issues[1].comments[1]) /\ issues[1].comments[1].reactions # <<>>
    /\ Qualifies(issues[1].comments[2])
    /\ Len(issues[3].comments) = 1 /\ Qualifies(issues[3].comments[1])
    /\ TableRows = <<<<<<51>>, <<117>>, <<>>>>, <<<<50>>, <<117>>, <<>>>>>>

---------------------------------------------------------------------------
(* C20 *)

\* the issue belongs in the feed: it has a body that is not empty, the
\* owner wrote it, and it is no pull request
InFeed(i) == i.body # <<>> /\ i.body # <<<<>>>> /\ i.user = "me" /\ ~i.pull_request

\* C20: the feed that generate_rss_feed writes has exactly one entry for
\* each issue that has a non-empty body, is the owner's and is no pull
\* request, and no other entry.
C20_FeedMembership ==
    (~IsNone(feed)) =>
        /\ \A k \in 1..Len(issues) :
              Cardinality({e \in 1..Len(Val(feed)) : Val(feed)[e].number = issues[k].number})
                  = IF InFeed(issues[k]) THEN 1 ELSE 0
        /\ \A e \in 1..Len(Val(feed)) :
              \E k \in 1..Len(issues) : issues[k].number = Val(feed)[e].number

---------------------------------------------------------------------------
(* C21 *)

\* C21: the entries of the feed stand in update-time descending order: of
\* two entries the first is of the issue updated later, or the two issues
\* were updated at the same time and the first comes earlier in the
\* enumeration of the tracker.
C21_FeedOrder ==
    (~IsNone(feed)) =>
        \A e, f \in 1..Len(Val(feed)) :
            e < f =>
                LET a == IssueOf(Val(feed)[e].number)
                    b == IssueOf(Val(feed)[f].number)
                IN  \/ a.updated_at > b.updated_at
                    \/ (a.updated_at = b.updated_at /\ EnumPos(a.number) < EnumPos(b.number))

\* C21 witness: three issues of the owner, enumerated with the update times
\* 1, 2, 3, stand in the feed in the order 3, 2, 1.
C21_Witness ==
    /\ ~IsNone(feed)
    /\ Len(issues) = 3
    /\ \A k \in 1..3 : issues[k].updated_at = k /\ is_me(issues[k])
    /\ [e \in 1..Len(Val(feed)) |-> Val(feed)[e].number] = <<3, 2, 1>>

---------------------------------------------------------------------------
(* C22 *)

\* the characters the claim names: the control characters below 0x20 other
\* than tab, LF and CR, and the surrogates 0xD800..0xDFFF
NamedInvalid(c) == (c < 32 /\ c \notin {9, 10, 13}) \/ (55296 <= c /\ c <= 57343)

\* the same and the two code points U+FFFE and U+FFFF
XmlInvalid(c) == NamedInvalid(c) \/ c = 65534 \/ c = 65535

\* the body of the one issue of the tracker
TheBody == Val(issues[1].body)

---------------------------------------------------------------------------
(* C23 *)

\* the archive file save_issue just wrote
SavedFile == archive[ret.path]

\* the comments of the archived issue that the owner wrote
OwnComments == SelectSeq(arg.issue.comments, LAMBDA c : c.user = ME)

\* the comment entries of the archive file
CommentEntries == SelectSeq(SavedFile, LAMBDA l : l.kind = "comment")

\* C23: the archive file that save_issue wrote embeds a comment, with its
\* timestamp and its body, exactly when the owner wrote it: the entries of
\* the file are the owner's comments in order, no body of a comment of
\* somebody else is in the file, and the comments subsection is there only
\* when the owner wrote a comment.
C23_OwnCommentsOnly ==
    (pc \in {"returned", "rerun"} /\ arg.fn = "save_issue") =>
        /\ Len(CommentEntries) = Len(OwnComments)
        /\ \A k \in 1..Len(OwnComments) :
              /\ CommentEntries[k].text =
                   (IF OwnComments[k].body = <<>> THEN S_NoCommentContent
                    ELSE OwnComments[k].body)
              /\ Len(CommentEntries[k].time) >= 10
              /\ IsPrefix(CommentEntries[k].time, OwnComments[k].created_at.str)
        /\ \A k \in 1..Len(arg.issue.comments) :
              (arg.issue.comments[k].user # ME /\ arg.issue.comments[k].body # <<>>) =>
                 \A j \in 1..Len(SavedFile) : SavedFile[j].text # arg.issue.comments[k].body
        /\ (\E j \in 1..Len(SavedFile) : SavedFile[j].kind = "comments_heading") =>
              Len(OwnComments) > 0

---------------------------------------------------------------------------
(* C24 *)

\* C24: save_issue is idempotent on an issue: the first run leaves in the
\* file only what it wrote itself, whatever the file held before, and a
\* second run on the same issue leaves every archive file as the first run
\* left it.
C24_SaveIdempotent ==
    [][(arg.fn = "save_issue" /\ arg' = arg) =>
          /\ \A j \in 1..Len(archive'[ret'.path]) : archive'[ret'.path][j].kind # "stale"
          /\ (pc # "call" => archive' = archive)]_vars

\* C24 witness: the second run is over, the file holds two comments of the
\* owner, and another file of the directory still holds its old lines
C24_Witness ==
    /\ pc = "rerun" /\ arg.fn = "save_issue"
    /\ Len(SelectSeq(archive[ret.path], LAMBDA l : l.kind = "comment")) = 2
    /\ \E p \in DOMAIN archive : p # ret.path /\ archive[p] = StaleFile

---------------------------------------------------------------------------
(* C25 *)

\* C25: format_time never raises; for a timestamp it returns the date or
\* the date and time in their fixed width, and for a value that is no
\* timestamp it returns one of the two sentinels ("未知时间",
\* "时间格式化失败"), never a piece of the value; this for the format_time of
\* both implementations.
C25_FormatTimeTotal ==
    (pc = "returned" /\ arg.fn = "format_time") =>
        /\ ~ret.raised
        /\ arg.time.kind = "datetime" =>
              (Len(ret.value) \in {10, 19} /\ IsPrefix(ret.value, arg.time.str))
        /\ arg.time.kind # "datetime" =>
              ret.value \in {S_UnknownTime, S_FormatFailed}

---------------------------------------------------------------------------
(* C27 *)

\* the calls of the log, failures of writes left out
Calls == SelectSeq(log, LAMBDA e : e.ev # "write_failed")

\* C27: when main.main is over, whatever issue_number it was given, it has
\* called save_issue once for each issue that get_to_generate_issues
\* returned, in that order, then regenerate_readme once, then
\* push_to_backup_branch once; and it is over without an error, also when
\* push_to_backup_branch raised.
C27_MainFlow ==
    (impl = "main" /\ arg.fn = "run" /\ pc \in {"done", "error"}) =>
        /\ pc = "done"
        /\ Len(Calls) >= 1 /\ Calls[1].ev = "get_to_generate_issues"
        /\ Len(Calls) = Len(Calls[1].numbers) + 3
        /\ \A k \in 1..Len(Calls[1].numbers) :
              Calls[k + 1].ev = "save_issue" /\ Calls[k + 1].numbers = <<Calls[1].numbers[k]>>
        /\ Calls[Len(Calls) - 1].ev = "regenerate_readme"
        /\ Calls[Len(Calls)].ev = "push_to_backup_branch"

---------------------------------------------------------------------------
(* C26 *)

\* C26: a write into README.md or into an archive file that fails is
\* fatal: once a write of a section renderer or of save_issue has failed,
\* the run has ended in error, so no run goes on or completes after a
\* failed write.
C26_WriteFailureFatal ==
    (arg.fn = "run" /\ \E k \in 1..Len(log) : log[k].ev = "write_failed") => pc = "error"

---------------------------------------------------------------------------
(* C28 *)

\* the issue has no body: None or the empty text
Bodiless(i) == IsNone(i.body) \/ i.body = Some(<<>>)

\* the numbers of the owner's issues without body
BodilessOwned == {issues[k].number : k \in {j \in 1..Len(issues) : Bodiless(issues[j]) /\ is_me(issues[j])}}

\* C28: an issue whose body is None or empty makes no stage of the run
\* fail: the run ends in error only where a call of the log raised; once
\* add_md_todo of BlogGenerator is over, each such issue of the owner that
\* is labelled TODO has its "all done" line and no task line; the item
\* renderer writes no summary for it; the feed has no entry of it; and its
\* archive file holds the placeholder as body.
C28_NoBodyHarmless ==
    arg.fn = "run" =>
        /\ pc = "error" => (log # <<>> /\ log[Len(log)].raised)
        /\ (impl = "blog_generator" /\ pc \in {"feed", "archive", "save", "done", "error"}) =>
              \A n \in BodilessOwned :
                 /\ \E k \in 1..Len(doc) : doc[k].kind = "todo_all_done" /\ doc[k].issue = n
                 /\ \A k \in 1..Len(doc) : ~(doc[k].kind = "task" /\ doc[k].issue = n)
        /\ \A k \in 1..Len(doc) : ~(doc[k].kind = "summary" /\ doc[k].issue \in BodilessOwned)
        /\ ~IsNone(feed) =>
              \A k \in 1..Len(Val(feed)) : Val(feed)[k].number \notin BodilessOwned
        /\ \A k \in 1..Len(issues) :
              (Bodiless(issues[k]) /\ md_name(issues[k]).path \in DOMAIN archive) =>
                 \E j \in 1..Len(archive[md_name(issues[k]).path]) :
                    /\ archive[md_name(issues[k]).path][j].kind = "body"
                    /\ archive[md_name(issues[k]).path][j].text = S_NoContent

---------------------------------------------------------------------------
(* C29 *)

\* the lines of the label section whose heading is at position h: those
\* after h and before the next label heading, of this kind
InSection(h, kind) ==
    {k \in At("label", kind) :
        h < k /\ \A g \in At("label", "heading") : (h < g) => (k < g)}

\* C29: in every label section that BlogGenerator.add_md_label wrote, the
\* markup of the collapsible block is balanced: the section has at most one
\* opening line, it has a closing line exactly when it has an opening line,
\* the closing line comes after the opening line and after the last item of
\* the section (and so before the heading of the next section), exactly
\* ANCHOR_NUMBER items of the section precede the opening line, and no
\* opening or closing line stands outside a section.
C29_DetailsBalanced ==
    (impl = "blog_generator" /\ Ran("label")) =>
        /\ \A h \in At("label", "heading") :
              /\ Cardinality(InSection(h, "details_open")) <= 1
              /\ Cardinality(InSection(h, "details_close")) = Cardinality(InSection(h, "details_open"))
              /\ \A c \in InSection(h, "details_close") :
                    /\ \A o \in InSection(h, "details_open") : o < c
                    /\ \A k \in InSection(h, "item") : k < c
              /\ \A o \in InSection(h, "details_open") :
                    Cardinality({k \in InSection(h, "item") : k < o}) = ANCHOR_NUMBER
        /\ \A k \in At("label", "details_open") \cup At("label", "details_close") :
              \E h \in At("label", "heading") : h < k

\* C29 witness: add_md_label wrote two sections; the first one has its
\* block, closed before the heading of the second one, which has one item
\* and no block.
C29_Witness ==
    /\ impl = "blog_generator" /\ Ran("label")
    /\ Cardinality(At("label", "heading")) = 2
    /\ \E h1, h2 \in At("label", "heading") :
          /\ h1 < h2
          /\ Cardinality(InSection(h1, "details_open")) = 1
          /\ \E c \in InSection(h1, "details_close") : c < h2
          /\ Cardinality(InSection(h2, "item")) = 1
          /\ InSection(h2, "details_open") = {}

---------------------------------------------------------------------------
(* C30 *)

\* the body that the archive file of this name holds
BodyIn(path) ==
    LET ls == SelectSeq(archive[path], LAMBDA l : l.kind = "body") IN ls[1].text

\* C30: two issues of different numbers are never written to the same
\* archive file, whatever their titles: once both are saved their file
\* names differ, the directory holds both files, and the file of the first
\* still holds the body of the first.
C30_DistinctFiles ==
    (pc = "saved_both" /\ arg.fn = "save_two") =>
        /\ md_name(arg.first).path # md_name(arg.second).path
        /\ Cardinality(DOMAIN archive) = 2
        /\ BodyIn(md_name(arg.first).path) = Val(arg.first.body)
        /\ BodyIn(md_name(arg.second).path) = Val(arg.second.body)

\* C30 witness: the issues 1 and 11 are saved, with the titles "1_" and "_":
\* the names "1_1_.md" and "11__.md" are made of the same characters
C30_Witness ==
    /\ pc = "saved_both" /\ arg.fn = "save_two"
    /\ arg.first.number = 1 /\ arg.first.title = <<49, 95>>
    /\ arg.second.number = 11 /\ arg.second.title = <<95>>
    /\ Cardinality(DOMAIN archive) = 2

===========================================================================
